---- MODULE Spec2Model ----
(***************************************************************************)
(* A model of zkAuth's threshold authentication core: the Shamir sharing   *)
(* over a prime field (shares.ts), the share envelope (masterkey.ts), the  *)
(* in-memory storage backends (chains/*.ts) and the register / login /     *)
(* isRegistered orchestration of ZkAuth (zkAuthClient.ts).                 *)
(*                                                                         *)
(* Scaling.  TLC has 32-bit integers, so the 254-bit field and the 256-bit *)
(* master key are scaled down keeping their relation: the key space        *)
(* (16^KeyHexLen values) is larger than PRIME, and PRIME is larger than    *)
(* every share index.  One hex digit of the scaled key stands for one byte *)
(* of the 32-byte key.                                                     *)
(*                                                                         *)
(* Cryptography is symbolic: sha256 is an injective constructor, an        *)
(* AES-256-GCM ciphertext is a term naming key, iv and plaintext, and its  *)
(* tag verifies only for the key, iv and ciphertext it was computed over.  *)
(***************************************************************************)
EXTENDS Integers, Sequences, FiniteSets, TLC

(* ------------------------------ bounds -------------------------------- *)

\* Concurrent invocations of register / login (each process makes one call).
NumProcs == 2
\* Credentials (pk values) users may present.
NumPKs == 1
\* External alterations / removals of stored shares.
MaxEnv == 2
\* Of the external events, those that alter a share (the others remove one).
MaxAlter == 1
\* Backend calls that may fail with BackendUnavailable.
MaxFaults == 1
\* Largest share count drawn for the pure split/combine specification.
MaxShares == 4
\* Shares handed to combineShares in one call, when picked freely.
MaxPick == 3
\* Last instant of the clock.
MaxTime == 7
\* Longest session lifetime passed to createSession.
MaxTtl == 2
\* Latest time the email-OTP hook is followed to.
MaxOtpTime == 4
\* Largest expiryHours passed to createSessionToken.
MaxExpiryHours == 2
\* Steps the authenticator's clock may be ahead of the verifier's.
MaxSkew == 1
\* Backup codes generated at setup (8 in the program).
BackupCodeCount == 2
\* Transactions in the commit log.
MaxLog == 3

(* ------------------------- program constants -------------------------- *)

\* shares.ts PRIME (scaled; see the header).
PRIME == 5
\* masterkey.ts generateMasterKey: randomBytes(32), scaled to hex digits.
KeyHexLen == 1
\* shares.ts splitMasterKey: totalShares > 255 is refused (scaled).
MaxTotalShares == 4
\* Milliseconds per second (1000), seconds per hour (3600) and the default
\* expiryHours of createSessionToken (24 * 30), scaled to the clock's range.
MsPerSecond == 2
SecondsPerHour == 2
DefaultExpiryHours == 1
\* totp.ts: TOTP_DIGITS, TOTP_WINDOW, and TOTP_PERIOD (30 s) scaled to the
\* clock's range.
TOTP_DIGITS == 6
TOTP_WINDOW == 1
TOTP_PERIOD == 1
\* Shortest code verify() of the email-OTP hook looks at.
OtpMinLength == 6

Chains == <<"zcash", "starknet", "solana">>
ChainSet == {"zcash", "starknet", "solana"}
Procs == 1..NumProcs
PKs == 1..NumPKs
HexDigits == 0..15
Keys == [1..KeyHexLen -> HexDigits]

Ok(v) == [ok |-> TRUE, value |-> v]
Err(e) == [ok |-> FALSE, error |-> e]

(* ----------------------- number <-> text forms ------------------------ *)

RECURSIVE FromDigits(_, _)
\* BigInt('0x' + hex) / BigInt(decimal): the value of a digit string.
FromDigits(ds, base) ==
    IF ds = <<>> THEN 0
    ELSE FromDigits(SubSeq(ds, 1, Len(ds) - 1), base) * base + ds[Len(ds)]

RECURSIVE ToDigits(_, _)
\* bigint.toString(base): no leading zeros, "0" for zero.
ToDigits(n, base) ==
    IF n < base THEN <<n>>
    ELSE Append(ToDigits(n \div base, base), n % base)

RECURSIVE padStart(_, _)
\* String.prototype.padStart(len, '0')
padStart(ds, len) == IF Len(ds) >= len THEN ds ELSE padStart(<<0>> \o ds, len)

(* --------------------------- field (shares.ts) ------------------------ *)

\* mod(a, p)
mod(a) ==
    LET result == IF a >= 0 THEN a % PRIME ELSE -((-a) % PRIME)
    IN IF result >= 0 THEN result ELSE result + PRIME

RECURSIVE egcd(_, _, _, _)
\* the while loop of modInverse: (old_r, r, old_s, s)
egcd(old_r, r, old_s, s) ==
    IF r = 0 THEN <<old_r, old_s>>
    ELSE LET quotient == old_r \div r
         IN egcd(r, old_r - quotient * r, s, old_s - quotient * s)

\* modInverse(a, p): throws when gcd(a, p) # 1
modInverse(a) ==
    LET e == egcd(a, PRIME, 1, 0)
    IN IF e[1] # 1 THEN Err("Modular inverse does not exist") ELSE Ok(mod(e[2]))

RECURSIVE evalFrom(_, _, _, _, _)
evalFrom(coefficients, x, k, result, xPower) ==
    IF k > Len(coefficients) THEN result
    ELSE evalFrom(coefficients, x, k + 1,
                  mod(result + mod(coefficients[k] * xPower)), mod(xPower * x))

\* evaluatePolynomial(coefficients, x)
evaluatePolynomial(coefficients, x) == evalFrom(coefficients, x, 1, 0, 1)

RECURSIVE lagrangeInner_after(_, _, _, _, _)
\* Variant: the inner loop takes only the shares after share i.
lagrangeInner_after(shares, i, j, numerator, denominator) ==
    IF j > Len(shares) THEN <<numerator, denominator>>
    ELSE IF j > i
         THEN lagrangeInner_after(shares, i, j + 1,
                                  mod(numerator * mod(-shares[j].x)),
                                  mod(denominator * mod(shares[i].x - shares[j].x)))
         ELSE lagrangeInner_after(shares, i, j + 1, numerator, denominator)

RECURSIVE lagrangeInner(_, _, _, _, _)
\* the inner loop over j: <<numerator, denominator>>
lagrangeInner(shares, i, j, numerator, denominator) ==
    IF j > Len(shares) THEN <<numerator, denominator>>
    ELSE IF i # j
         THEN lagrangeInner(shares, i, j + 1,
                            mod(numerator * mod(-shares[j].x)),
                            mod(denominator * mod(shares[i].x - shares[j].x)))
         ELSE lagrangeInner(shares, i, j + 1, numerator, denominator)

RECURSIVE lagrangeOuter(_, _, _)
lagrangeOuter(shares, i, secret) ==
    IF i > Len(shares) THEN Ok(secret)
    ELSE LET nd == lagrangeInner(shares, i, 1, 1, 1)
             inv == modInverse(nd[2])
         IN IF ~inv.ok THEN inv
            ELSE lagrangeOuter(shares, i + 1,
                     mod(secret + mod(shares[i].y * mod(nd[1] * inv.value))))

\* lagrangeInterpolate(shares): shares are parsed {x, y} bigints
lagrangeInterpolate(shares) == lagrangeOuter(shares, 1, 0)

(* ---------------------- split / combine (shares.ts) ------------------- *)

\* The y of share i of splitMasterKey.
shareY(coefficients, i) == evaluatePolynomial(coefficients, i)

\* splitMasterKey(masterKey, threshold, totalShares); `random` holds the
\* threshold-1 values randomFieldElement() returns.
splitMasterKey(masterKey, threshold, totalShares, random) ==
    IF threshold < 2 THEN Err("Threshold must be at least 2")
    ELSE IF totalShares < threshold THEN Err("Total shares must be >= threshold")
    ELSE IF totalShares > MaxTotalShares THEN Err("Maximum 255 shares supported")
    ELSE LET secret == FromDigits(masterKey.key, 16)
             coefficients == <<secret>> \o random
         IN Ok([shares |-> [i \in 1..totalShares |->
                               [x |-> ToDigits(i, 10),
                                y |-> ToDigits(shareY(coefficients, i), 10)]],
                threshold |-> threshold,
                totalShares |-> totalShares])

\* combineShares(shares): the 64-digit hex of the interpolated secret.
combineShares(shares) ==
    IF Len(shares) < 2 THEN Err("Need at least 2 shares to combine")
    ELSE LET parsedShares == [k \in 1..Len(shares) |->
                                [x |-> FromDigits(shares[k].x, 10),
                                 y |-> FromDigits(shares[k].y, 10)]]
             xValues == {ToDigits(parsedShares[k].x, 10) : k \in 1..Len(shares)}
         IN IF Cardinality(xValues) # Len(parsedShares)
            THEN Err("Duplicate share indices detected")
            ELSE LET secret == lagrangeInterpolate(parsedShares)
                 IN IF ~secret.ok THEN secret
                    ELSE Ok(padStart(ToDigits(secret.value, 16), KeyHexLen))

(* --------------------------- masterkey.ts ----------------------------- *)

\* createHash('sha256').update(x).digest(): an injective constructor.
sha256(x) == <<"sha256", x>>

\* Buffer.from(hex, 'hex')
bytesFromHex(hex) == <<"bytes", hex>>

\* generateMasterKey(), for the random bytes `key` (as hex).
generateMasterKey(key) == [key |-> key, keyBytes |-> bytesFromHex(key)]

\* masterKeyFromHex(hex)
masterKeyFromHex(hex) ==
    IF Len(hex) # KeyHexLen
    THEN Err("Invalid master key: must be 32 bytes (256-bit)")
    ELSE Ok([key |-> hex, keyBytes |-> bytesFromHex(hex)])

\* hashMasterKey(masterKey)
hashMasterKey(masterKey) == sha256(masterKey.keyBytes)

\* deriveEncryptionKey(pk)
deriveEncryptionKey(pk) == sha256(<<"bytes", pk>>)

\* generateUserId(pk): "zkauth:" + the first 16 hex digits of sha256(pk)
generateUserId(pk) == <<"zkauth", sha256(<<"bytes", pk>>)>>

\* AES-256-GCM: the ciphertext and the tag computed over (key, iv, ciphertext).
gcmCipher(key, iv, data) == [k |-> key, iv |-> iv, pt |-> data]
gcmTag(key, iv, ciphertext) == <<"tag", key, iv, ciphertext>>

\* encryptWithPK(data, pk), for the random iv
encryptWithPK(data, pk, iv) ==
    LET key == deriveEncryptionKey(pk)
        ciphertext == gcmCipher(key, iv, data)
    IN [ciphertext |-> ciphertext, iv |-> iv, tag |-> gcmTag(key, iv, ciphertext)]

\* decryptWithPK(encrypted, pk): decipher.final throws on a tag mismatch.
decryptWithPK(encrypted, pk) ==
    LET key == deriveEncryptionKey(pk)
    IN IF encrypted.tag = gcmTag(key, encrypted.iv, encrypted.ciphertext)
       THEN Ok(encrypted.ciphertext.pt)
       ELSE Err("AuthenticationFailure")

(* ----------------------- share envelope (shares.ts) ------------------- *)

\* The value of a property not yet set.
undefined == <<>>

JSONstringify(share) == <<"json", share.x, share.y>>
JSONparse(text) == [x |-> text[2], y |-> text[3]]

\* encryptShare(share, shareIndex, chain, pk), for the random iv
encryptShare(share, shareIndex, chain, pk, iv) ==
    LET encrypted == encryptWithPK(JSONstringify(share), pk, iv)
    IN [shareIndex |-> shareIndex,
        encryptedData |-> encrypted.ciphertext,
        iv |-> encrypted.iv,
        tag |-> encrypted.tag,
        chain |-> chain,
        txHash |-> undefined]

\* decryptShare(encryptedShare, pk)
decryptShare(encryptedShare, pk) ==
    LET decrypted == decryptWithPK([ciphertext |-> encryptedShare.encryptedData,
                                    iv |-> encryptedShare.iv,
                                    tag |-> encryptedShare.tag], pk)
    IN IF ~decrypted.ok THEN decrypted ELSE Ok(JSONparse(decrypted.value))

(* ------------------------------- state -------------------------------- *)

VARIABLES
    config,       \* the ZkAuth instance: threshold, totalShares, enabled chains
    memoryStore,  \* per chain, the backend's Map from storage key to share
    procs,        \* per process, the register / login invocation it runs
    envLeft,      \* external removals / alterations still to come
    alterLeft,    \* of these, the alterations still to come
    faultsLeft,   \* backend calls that may still fail
    maxRunning,   \* how many calls may be in flight at once
    sh            \* the pure split/combine run (SplitSpec only)

\* The clock and the components beside register / login, each explored by a
\* specification of its own and at rest in the others.
VARIABLES
    now,          \* Date.now(), in scaled time units
    session,      \* the ZkAuthSession made by createSession, and its last use
    tok,          \* a session token: created, perhaps altered, verified
    totp,         \* a TOTP code: generated by the authenticator, verified
    backup,       \* a user's backup codes, their stored hashes, the last code presented
    otp,          \* the useVerifyEmailOTP hook: props, signatureRef, expiresAt, the verify just made
    ledger,       \* the commit log of memo transactions and the last 2FA state read from it
    ident,        \* the last identity derivation: its inputs and outputs
    bk,           \* the backends called directly: the last call, the shares stored by store
    web,          \* the browser: localStorage, the useSetup2FA and useSessionValidation hooks
    flow          \* the useZkAuthFlow hook: its refs, modals, effects under way, requests in flight

aux == <<now, session, tok, totp, backup, otp, ledger, ident, bk, web, flow>>

\* No session created.
NoSession ==
    [stage |-> "none", loginResult |-> <<>>, createdAt |-> 0, expiresInMs |-> 0,
     expiresAt |-> 0, refused |-> FALSE, last |-> <<>>]

\* The components beside register / login at rest.
\* No session token created.
NoToken ==
    [stage |-> "none", payload |-> <<>>, tokenString |-> <<>>, expiryHours |-> 0,
     altered |-> "none", at |-> 0, result |-> <<>>]

\* No TOTP code generated.
NoTotp ==
    [stage |-> "none", secret |-> <<>>, step |-> 0, typed |-> <<>>,
     verifiedStep |-> 0, result |-> FALSE]

\* No backup codes set up.
NoBackup ==
    [stage |-> "none", backupCodes |-> <<>>, totpBackupCodes |-> <<>>,
     accepted |-> {}, last |-> <<>>]

\* The email-OTP hook before it is mounted: no signature, no expiry.
NoOtp ==
    [mounted |-> FALSE, masterKeyHash |-> "", signatureRef |-> <<>>, expiresAt |-> 0,
     otpSent |-> FALSE, signedExpiresAt |-> 0, latest |-> <<>>, last |-> <<>>]

\* No backend called directly yet.
NoCalls == [latest |-> <<>>, last |-> <<>>]

\* An empty commit log, nothing read from it.
NoChain == [log |-> <<>>, last |-> <<>>]

\* The browser before any hook is mounted: localStorage empty.
NoWeb ==
    [mounted |-> FALSE, hasStorage |-> TRUE, masterKeyHash |-> "", pendingSetup |-> <<>>,
     localStorage |-> <<>>, last |-> <<>>,
     isLoggedIn |-> FALSE, secretPhrase |-> "", showMandatory2FASetup |-> FALSE,
     isAwaiting2FARef |-> FALSE, sessionValidationDoneRef |-> FALSE,
     runs |-> 0, run |-> <<>>, validated |-> <<>>]

\* useZkAuthFlow before it is mounted.
NoFlow ==
    [mounted |-> FALSE, left |-> FALSE, dirty |-> FALSE, location |-> "", search |-> "",
     googleUser |-> <<>>, storedAuthUser |-> <<>>, refetching |-> FALSE,
     oauthFlowProcessedRef |-> FALSE, reloadCheckDoneRef |-> FALSE,
     isAwaiting2FARef |-> FALSE, prevIsLoggedInRef |-> "undefined",
     userDismissedAuthRef |-> FALSE,
     showTotpModal |-> FALSE, showEmailOtpModal |-> FALSE,
     showMandatory2FASetup |-> FALSE, showSecretPhraseModal |-> FALSE,
     oauth |-> "idle", oauthRegistered |-> FALSE, reload |-> "idle", handler |-> "none",
     sealed |-> FALSE, issued |-> {}, lastRefetch |-> <<>>]

AuxIdle ==
    /\ now = 0 /\ session = NoSession /\ tok = NoToken /\ totp = NoTotp
    /\ backup = NoBackup
    /\ otp = NoOtp
    /\ ledger = NoChain
    /\ ident = <<>>
    /\ bk = NoCalls
    /\ web = NoWeb
    /\ flow = NoFlow

vars == <<config, memoryStore, procs, envLeft, alterLeft, faultsLeft, maxRunning, sh, aux>>

\* new ZkAuth(config): threshold || 2, totalShares || 3 (0 stands for omitted),
\* and the check that enough chains are configured.
ZkAuthConstructor(cfg) ==
    LET threshold == IF cfg.threshold = 0 THEN 2 ELSE cfg.threshold
        totalShares == IF cfg.totalShares = 0 THEN 3 ELSE cfg.totalShares
        enabledChains == SelectSeq(Chains, LAMBDA c : c \in cfg.chains)
    IN IF Len(enabledChains) < threshold
       THEN Err("ConfigError")
       ELSE Ok([threshold |-> threshold, totalShares |-> totalShares,
                chains |-> cfg.chains])

\* The configurations instances are built from.
ConfigInputs ==
    { [chains |-> ChainSet, threshold |-> 2, totalShares |-> 3],
      [chains |-> {"zcash", "solana"}, threshold |-> 0, totalShares |-> 0],
      [chains |-> {"starknet"}, threshold |-> 1, totalShares |-> 0],
      [chains |-> ChainSet, threshold |-> 2, totalShares |-> MaxTotalShares + 1],
      [chains |-> {"solana"}, threshold |-> 0, totalShares |-> 0] }

\* getEnabledChains(): zcash, starknet, solana, those configured.
getEnabledChains == SelectSeq(Chains, LAMBDA c : c \in config.chains)

\* Variant: a storage key that leaves the user out.
getStorageKey_shared(chain, userId) == <<chain, "share">>

\* getStorageKey(userId) of each backend: `${chain}:${userId}:share`
getStorageKey(chain, userId) == <<chain, userId, "share">>

\* Map.has / Map.get / Map.set / Map.delete on a backend's memoryStore
MapHas(m, k) == k \in DOMAIN m
MapSet(m, k, v) == [x \in DOMAIN m \cup {k} |-> IF x = k THEN v ELSE m[x]]
MapDelete(m, k) == [x \in DOMAIN m \ {k} |-> m[x]]
MapGet(m, k) == IF MapHas(m, k) THEN m[k] ELSE undefined

\* storage.exists(userId)
exists(chain, userId) == MapHas(memoryStore[chain], getStorageKey(chain, userId))

\* storage.fetch(userId): the share Map.get gives if it is truthy, or null
fetch(chain, userId) ==
    LET share == MapGet(memoryStore[chain], getStorageKey(chain, userId))
    IN IF share # undefined
       THEN [found |-> TRUE, share |-> share]
       ELSE [found |-> FALSE]

\* The number of enabled backends holding a share for userId now.
HoldersCount(userId) ==
    Cardinality({c \in config.chains : exists(c, userId)})

IdleProc ==
    [op |-> "none", pc |-> "idle", pk |-> 0, i |-> 0, foundCount |-> 0,
     pending |-> Ok(FALSE), isReg |-> FALSE,
     masterKey |-> <<>>, shares |-> <<>>, cur |-> <<>>, encryptedShares |-> <<>>,
     fetchedShares |-> <<>>, sharesUsed |-> 0, result |-> Err("none"),
     \* history, read by the properties only
     snap |-> <<>>, interf |-> FALSE, faults |-> {}, puts |-> <<>>, fetches |-> <<>>]

Running(q) == procs[q].pc \notin {"idle", "done"}
UserOf(q) == generateUserId(procs[q].pk)

\* A change of userId's stored shares made by p (0: from outside) is recorded
\* in the history of every other call for that user, running or finished.
Disturb(ps, p, userId) ==
    [q \in Procs |->
        IF q # p /\ ps[q].pc # "idle" /\ generateUserId(ps[q].pk) = userId
        THEN [ps[q] EXCEPT !.interf = TRUE]
        ELSE ps[q]]

\* The pure split/combine run at rest.
NoSplit ==
    [stage |-> "none", masterKey |-> <<>>, threshold |-> 0, totalShares |-> 0,
     random |-> <<>>, split |-> Err("none"), picked |-> <<>>, out |-> Err("none")]

\* What is explored: calls in flight together; calls one at a time with
\* failing backends; calls one at a time with stored shares removed or
\* altered around and during them.
Scenarios ==
    { [running |-> NumProcs, faults |-> 0, env |-> 0, alter |-> 0],
      [running |-> 1, faults |-> MaxFaults, env |-> 0, alter |-> 0],
      [running |-> 1, faults |-> 0, env |-> MaxEnv, alter |-> MaxAlter] }

\* The random bytes generateMasterKey is run with: one below PRIME and one above.
MasterKeyBytes == {k \in Keys : FromDigits(k, 16) \in {3, 12}}

Init ==
    /\ config \in {ZkAuthConstructor(c).value :
                      c \in {d \in ConfigInputs : ZkAuthConstructor(d).ok}}
    /\ memoryStore = [c \in ChainSet |-> <<>>]
    /\ procs = [p \in Procs |-> IdleProc]
    /\ \E s \in Scenarios :
          /\ envLeft = s.env /\ alterLeft = s.alter
          /\ faultsLeft = s.faults /\ maxRunning = s.running
    /\ sh = NoSplit
    /\ AuxIdle

(* ------------------------- ZkAuth.isRegistered ------------------------ *)

BackendUnavailable == Err("BackendUnavailable")

Finish(pr, result) == [pr EXCEPT !.pc = "done", !.result = result]

\* Whether the loop of isRegistered calls a backend at position k.
ExistsCalled(k) == k <= Len(getEnabledChains)

\* Variants of the verdict: more than threshold holders; any holder.
isRegisteredVerdict_strict(pr) == pr.foundCount > config.threshold
isRegisteredVerdict_any(pr) == pr.foundCount >= 1

\* isRegistered's `return foundCount >= this.threshold`.
isRegisteredVerdict(pr) == pr.foundCount >= config.threshold

\* isRegistered from loop position k: the call storage.exists(userId), which
\* reads the Map when called and is then awaited; after the last chain the
\* verdict foundCount >= threshold.
isRegisteredFrom(pr, k, fail) ==
    IF ExistsCalled(k)
    THEN [pr EXCEPT !.pc = "exists", !.i = k,
                    !.pending = IF fail THEN BackendUnavailable
                                ELSE Ok(exists(getEnabledChains[k], generateUserId(pr.pk)))]
    ELSE [pr EXCEPT !.pc = "isRegReturn",
                    !.isReg = isRegisteredVerdict(pr)]

\* What a call observes of its user's shares when it starts (history).
Snapshot(userId) ==
    [c \in ChainSet |-> IF exists(c, userId)
                        THEN <<memoryStore[c][getStorageKey(c, userId)]>> ELSE <<>>]

\* register(pk) / login(pk) is invoked: generateUserId, then isRegistered up to
\* its first await.
Start(p, op, pk) ==
    /\ procs[p].pc = "idle"
    /\ \A q \in Procs : q < p => procs[q].pc # "idle"
    /\ Cardinality({q \in Procs : Running(q)}) < maxRunning
    /\ \E fail \in BOOLEAN :
        /\ fail => ExistsCalled(1) /\ faultsLeft > 0
        /\ procs' = [procs EXCEPT ![p] =
                        isRegisteredFrom([IdleProc EXCEPT !.op = op, !.pk = pk,
                                              !.snap = Snapshot(generateUserId(pk))],
                                         1, fail)]
        /\ faultsLeft' = faultsLeft - (IF fail THEN 1 ELSE 0)
    /\ UNCHANGED <<config, memoryStore, envLeft, alterLeft, maxRunning, sh, aux>>

\* The awaited storage.exists settles: a rejection propagates out of
\* isRegistered and out of register / login; otherwise count and go on.
ExistsResume(p) ==
    LET pr == procs[p] IN
    /\ pr.pc = "exists"
    /\ IF ~pr.pending.ok
       THEN /\ procs' = [procs EXCEPT ![p] =
                           Finish([pr EXCEPT !.faults = @ \cup {<<"exists", getEnabledChains[pr.i]>>}],
                                  BackendUnavailable)]
            /\ UNCHANGED faultsLeft
       ELSE \E fail \in BOOLEAN :
            /\ fail => ExistsCalled(pr.i + 1) /\ faultsLeft > 0
            /\ procs' = [procs EXCEPT ![p] =
                            isRegisteredFrom(
                                [pr EXCEPT !.foundCount = @ + (IF pr.pending.value THEN 1 ELSE 0)],
                                pr.i + 1, fail)]
            /\ faultsLeft' = faultsLeft - (IF fail THEN 1 ELSE 0)
    /\ UNCHANGED <<config, memoryStore, envLeft, alterLeft, maxRunning, sh, aux>>

(* --------------------------- ZkAuth.register --------------------------- *)

Field == 0..(PRIME - 1)
\* Variant: a random source that only ever yields 0.
RandomCoefficients_zero(threshold) ==
    IF threshold < 2 THEN {<<>>} ELSE [1..(threshold - 1) -> {0}]

\* The values randomFieldElement() may return for a split of this threshold.
RandomCoefficients(threshold) ==
    IF threshold < 2 THEN {<<>>} ELSE [1..(threshold - 1) -> Field]

\* Whether the store loop of register calls a backend at position k (k = i+1).
StoreCalled(pr, k) == k <= Len(pr.shares) /\ k <= Len(getEnabledChains)

\* The object register builds for position k (its iv names the random bytes).
ShareObject(p, pr, k) ==
    encryptShare(pr.shares[k], k, getEnabledChains[k], pr.pk, <<p, k>>)

\* The mock transaction hash a backend's store returns.
mockTxHash(chain, p) == <<chain, "tx", p>>

\* register's loop from position k: encryptShare, then storage.store, which
\* sets the Map entry when called and is then awaited; after the last share
\* the RegisterResult.
registerLoopProc(p, pr, k, fail) ==
    IF StoreCalled(pr, k)
    THEN [pr EXCEPT !.pc = "store", !.i = k,
                    !.cur = ShareObject(p, pr, k),
                    !.puts = Append(@, getEnabledChains[k]),
                    !.pending = IF fail THEN BackendUnavailable
                                ELSE Ok(mockTxHash(getEnabledChains[k], p))]
    ELSE Finish(pr, Ok([userId |-> generateUserId(pr.pk),
                        shares |-> pr.encryptedShares,
                        masterKeyHash |-> hashMasterKey(pr.masterKey)]))

\* The Maps after the store call at position k (memoryStore.set).
registerLoopStore(ms, p, pr, k, fail) ==
    IF StoreCalled(pr, k) /\ ~fail
    THEN LET chain == getEnabledChains[k]
         IN [ms EXCEPT ![chain] =
                MapSet(@, getStorageKey(chain, generateUserId(pr.pk)), ShareObject(p, pr, k))]
    ELSE ms

\* Variant: register never refuses.
registerRefused_never(pr) == FALSE

\* Variant: register refuses as soon as one backend holds a share.
registerRefused_any(pr) == pr.foundCount >= 1

\* register's `if (isRegistered) throw`.
registerRefused(pr) == pr.isReg

\* register after `await this.isRegistered(userId)`.
RegisterContinue(p) ==
    LET pr == procs[p] IN
    /\ pr.pc = "isRegReturn" /\ pr.op = "register"
    /\ IF registerRefused(pr)
       THEN /\ procs' = [procs EXCEPT ![p] = Finish(pr, Err("AlreadyRegistered"))]
            /\ UNCHANGED <<memoryStore, faultsLeft>>
       ELSE \E key \in MasterKeyBytes, random \in RandomCoefficients(config.threshold), fail \in BOOLEAN :
            LET masterKey == generateMasterKey(key)
                splitResult == splitMasterKey(masterKey, config.threshold,
                                              config.totalShares, random)
            IN IF ~splitResult.ok
               THEN /\ ~fail
                    /\ procs' = [procs EXCEPT ![p] = Finish(pr, splitResult)]
                    /\ UNCHANGED <<memoryStore, faultsLeft>>
               ELSE LET pr1 == [pr EXCEPT !.masterKey = masterKey,
                                          !.shares = splitResult.value.shares]
                    IN /\ fail => StoreCalled(pr1, 1) /\ faultsLeft > 0
                       /\ memoryStore' = registerLoopStore(memoryStore, p, pr1, 1, fail)
                       /\ procs' = [Disturb(procs, p,
                                            IF StoreCalled(pr1, 1) /\ ~fail
                                            THEN generateUserId(pr.pk) ELSE <<>>)
                                    EXCEPT ![p] = registerLoopProc(p, pr1, 1, fail)]
                       /\ faultsLeft' = faultsLeft - (IF fail THEN 1 ELSE 0)
    /\ UNCHANGED <<config, envLeft, alterLeft, maxRunning, sh, aux>>

\* `encryptedShare.txHash = txHash` writes the object the Map holds too, when
\* the Map still holds that object.
SetTxHash(ms, chain, userId, obj, txHash) ==
    LET k == getStorageKey(chain, userId)
    IN IF MapHas(ms[chain], k) /\ ms[chain][k].iv = obj.iv
          /\ ms[chain][k].shareIndex = obj.shareIndex
       THEN [ms EXCEPT ![chain][k].txHash = txHash]
       ELSE ms

\* Variant: a rejected storage.store is swallowed and register reports the
\* shares stored so far.
storeRejected_swallow(pr, chain) ==
    Finish([pr EXCEPT !.faults = @ \cup {<<"store", chain>>}],
           Ok([userId |-> generateUserId(pr.pk),
               shares |-> pr.encryptedShares,
               masterKeyHash |-> hashMasterKey(pr.masterKey)]))

\* A rejected storage.store is not caught: it ends register with that error.
storeRejected(pr, chain) ==
    Finish([pr EXCEPT !.faults = @ \cup {<<"store", chain>>}], BackendUnavailable)

\* The awaited storage.store settles: a rejection propagates out of register
\* (the shares already stored stay); otherwise record the hash and go on.
StoreResume(p) ==
    LET pr == procs[p]
        chain == getEnabledChains[pr.i]
    IN
    /\ pr.pc = "store"
    /\ IF ~pr.pending.ok
       THEN /\ procs' = [procs EXCEPT ![p] = storeRejected(pr, chain)]
            /\ UNCHANGED <<memoryStore, faultsLeft>>
       ELSE \E fail \in BOOLEAN :
            LET done == [pr.cur EXCEPT !.txHash = pr.pending.value]
                pr1 == [pr EXCEPT !.encryptedShares = Append(@, done)]
                ms1 == SetTxHash(memoryStore, chain, generateUserId(pr.pk),
                                 pr.cur, pr.pending.value)
            IN /\ fail => StoreCalled(pr1, pr.i + 1) /\ faultsLeft > 0
               /\ memoryStore' = registerLoopStore(ms1, p, pr1, pr.i + 1, fail)
               /\ procs' = [Disturb(procs, p,
                                    IF memoryStore' # memoryStore
                                    THEN generateUserId(pr.pk) ELSE <<>>)
                            EXCEPT ![p] = registerLoopProc(p, pr1, pr.i + 1, fail)]
               /\ faultsLeft' = faultsLeft - (IF fail THEN 1 ELSE 0)
    /\ UNCHANGED <<config, envLeft, alterLeft, maxRunning, sh, aux>>

(* ----------------------------- ZkAuth.login ---------------------------- *)

\* Variant: login's loop without its break.
FetchCalled_all(pr, k) == k <= Len(getEnabledChains)

\* Whether login's loop calls a backend at position k: not after the last
\* chain, and not once threshold shares are collected (the break).
FetchCalled(pr, k) ==
    k <= Len(getEnabledChains) /\ ~(Len(pr.fetchedShares) >= config.threshold)

\* Variant: login wants a share from every backend.
tooFewShares_all(pr) == Len(pr.fetchedShares) < config.totalShares

\* login's `if (fetchedShares.length < this.threshold) throw`.
tooFewShares(pr) == Len(pr.fetchedShares) < config.threshold

\* login after its loop: the threshold check, combineShares, masterKeyFromHex.
loginFinish(pr) ==
    IF tooFewShares(pr)
    THEN Finish(pr, Err("InsufficientShares"))
    ELSE LET masterKeyHex == combineShares(pr.fetchedShares)
         IN IF ~masterKeyHex.ok THEN Finish(pr, masterKeyHex)
            ELSE LET masterKey == masterKeyFromHex(masterKeyHex.value)
                 IN IF ~masterKey.ok THEN Finish(pr, masterKey)
                    ELSE Finish(pr, Ok([userId |-> generateUserId(pr.pk),
                                        masterKey |-> masterKey.value,
                                        sharesUsed |-> pr.sharesUsed]))

\* login's loop from position k: storage.fetch, which reads the Map when
\* called and is then awaited.
loginLoopFrom(pr, k, fail) ==
    IF FetchCalled(pr, k)
    THEN [pr EXCEPT !.pc = "fetch", !.i = k,
                    !.fetches = Append(@, getEnabledChains[k]),
                    !.pending = IF fail THEN BackendUnavailable
                                ELSE Ok(fetch(getEnabledChains[k], generateUserId(pr.pk)))]
    ELSE loginFinish(pr)

\* Variant: login never refuses.
loginRefused_never(pr) == FALSE

\* login's `if (!isRegistered) throw`.
loginRefused(pr) == ~pr.isReg

\* login after `await this.isRegistered(userId)`.
LoginContinue(p) ==
    LET pr == procs[p] IN
    /\ pr.pc = "isRegReturn" /\ pr.op = "login"
    /\ IF loginRefused(pr)
       THEN /\ procs' = [procs EXCEPT ![p] = Finish(pr, Err("NotRegistered"))]
            /\ UNCHANGED faultsLeft
       ELSE \E fail \in BOOLEAN :
            /\ fail => FetchCalled(pr, 1) /\ faultsLeft > 0
            /\ procs' = [procs EXCEPT ![p] = loginLoopFrom(pr, 1, fail)]
            /\ faultsLeft' = faultsLeft - (IF fail THEN 1 ELSE 0)
    /\ UNCHANGED <<config, memoryStore, envLeft, alterLeft, maxRunning, sh, aux>>

\* The body of login's try block once the awaited storage.fetch settles: a
\* rejection, a null and a decryptShare that throws leave the share out.
tryFetched(pr) ==
    IF ~pr.pending.ok
    THEN [pr EXCEPT !.faults = @ \cup {<<"fetch", getEnabledChains[pr.i]>>}]
    ELSE IF ~pr.pending.value.found THEN pr
    ELSE LET share == decryptShare(pr.pending.value.share, pr.pk)
         IN IF ~share.ok THEN pr
            ELSE [pr EXCEPT !.fetchedShares = Append(@, share.value),
                            !.sharesUsed = @ + 1]

FetchResume(p) ==
    LET pr == procs[p] IN
    /\ pr.pc = "fetch"
    /\ \E fail \in BOOLEAN :
        LET pr1 == tryFetched(pr)
        IN /\ fail => FetchCalled(pr1, pr.i + 1) /\ faultsLeft > 0
           /\ procs' = [procs EXCEPT ![p] = loginLoopFrom(pr1, pr.i + 1, fail)]
           /\ faultsLeft' = faultsLeft - (IF fail THEN 1 ELSE 0)
    /\ UNCHANGED <<config, memoryStore, envLeft, alterLeft, maxRunning, sh, aux>>

(* ---------------------- the backends' environment ---------------------- *)

\* A stored share is removed from its backend.
Remove(chain, pk) ==
    LET userId == generateUserId(pk) IN
    /\ envLeft > 0
    /\ exists(chain, userId)
    /\ memoryStore' = [memoryStore EXCEPT ![chain] =
                          MapDelete(@, getStorageKey(chain, userId))]
    /\ procs' = Disturb(procs, 0, userId)
    /\ envLeft' = envLeft - 1
    /\ UNCHANGED <<config, alterLeft, faultsLeft, maxRunning, sh, aux>>

\* A bit flip in the plaintext a ciphertext would decrypt to without its tag.
AlterText(text) ==
    <<text[1], text[2], ToDigits((FromDigits(text[3], 10) + 1) % PRIME, 10)>>

Fields == {"encryptedData", "iv", "tag"}
Alter(share, f) ==
    CASE f = "encryptedData" -> [share EXCEPT !.encryptedData.pt = AlterText(@)]
      [] f = "iv" -> [share EXCEPT !.iv = <<0, @[2]>>]
      [] f = "tag" -> [share EXCEPT !.tag = <<"altered", @[2], @[3], @[4]>>]

\* A field of a stored share is altered in place.
Tamper(chain, pk, f) ==
    LET userId == generateUserId(pk)
        k == getStorageKey(chain, userId)
    IN
    /\ envLeft > 0 /\ alterLeft > 0
    /\ exists(chain, userId)
    /\ memoryStore' = [memoryStore EXCEPT ![chain][k] = Alter(@, f)]
    /\ procs' = Disturb(procs, 0, userId)
    /\ envLeft' = envLeft - 1
    /\ alterLeft' = alterLeft - 1
    /\ UNCHANGED <<config, faultsLeft, maxRunning, sh, aux>>

Next ==
    \/ \E p \in Procs, pk \in PKs : Start(p, "register", pk)
    \/ \E p \in Procs, pk \in PKs : Start(p, "login", pk)
    \/ \E p \in Procs : ExistsResume(p)
    \/ \E p \in Procs : RegisterContinue(p)
    \/ \E p \in Procs : StoreResume(p)
    \/ \E p \in Procs : LoginContinue(p)
    \/ \E p \in Procs : FetchResume(p)
    \/ \E c \in ChainSet, pk \in PKs : Remove(c, pk)
    \/ \E c \in ChainSet, pk \in PKs, f \in Fields : Tamper(c, pk, f)

Spec == Init /\ [][Next]_vars

(* ------------- splitMasterKey / combineShares on their own ------------- *)

\* Every master key, every (threshold, totalShares) up to MaxShares and every
\* outcome of randomFieldElement.
SplitInit ==
    /\ config = ZkAuthConstructor([chains |-> ChainSet, threshold |-> 2,
                                   totalShares |-> 3]).value
    /\ memoryStore = [c \in ChainSet |-> <<>>]
    /\ procs = [p \in Procs |-> IdleProc]
    /\ envLeft = 0 /\ alterLeft = 0 /\ faultsLeft = 0 /\ maxRunning = 0
    /\ AuxIdle
    /\ \E key \in Keys, threshold \in 2..MaxShares, totalShares \in 2..MaxShares :
       \E random \in RandomCoefficients(threshold) :
          sh = [NoSplit EXCEPT !.stage = "input",
                               !.masterKey = generateMasterKey(key),
                               !.threshold = threshold,
                               !.totalShares = totalShares,
                               !.random = random]

\* splitMasterKey(masterKey, threshold, totalShares)
SplitStep ==
    /\ sh.stage = "input"
    /\ sh' = [sh EXCEPT !.stage = "split",
                        !.split = splitMasterKey(sh.masterKey, sh.threshold,
                                                 sh.totalShares, sh.random)]
    /\ UNCHANGED <<config, memoryStore, procs, envLeft, alterLeft, faultsLeft, maxRunning, aux>>

\* The increasing sequences of share positions out of 1..n.
RECURSIVE Increasing(_, _)
Increasing(n, len) ==
    IF len = 0 THEN {<<>>}
    ELSE {Append(s, k) : s \in Increasing(n, len - 1), k \in 1..n} \cap
         {s \in [1..len -> 1..n] : \A a \in 1..(len - 1) : s[a] < s[a + 1]}

\* combineShares on `threshold` of the shares of the split.
CombineStep ==
    /\ sh.stage = "split" /\ sh.split.ok
    /\ \E picked \in Increasing(sh.totalShares, sh.threshold) :
          sh' = [sh EXCEPT !.stage = "combined",
                           !.picked = picked,
                           !.out = combineShares([k \in 1..Len(picked) |->
                                                     sh.split.value.shares[picked[k]]])]
    /\ UNCHANGED <<config, memoryStore, procs, envLeft, alterLeft, faultsLeft, maxRunning, aux>>

\* The sequences of up to MaxPick share positions out of 1..n, repeats allowed.
AnyPicks(n) == UNION {[1..len -> 1..n] : len \in 0..MaxPick}

\* combineShares on any shares of the split: too few, repeated, or enough.
CombineAnyStep ==
    /\ sh.stage = "split" /\ sh.split.ok
    /\ \E picked \in AnyPicks(sh.totalShares) :
          sh' = [sh EXCEPT !.stage = "combinedAny",
                           !.picked = picked,
                           !.out = combineShares([k \in 1..Len(picked) |->
                                                     sh.split.value.shares[picked[k]]])]
    /\ UNCHANGED <<config, memoryStore, procs, envLeft, alterLeft, faultsLeft, maxRunning, aux>>

SplitNext == SplitStep \/ CombineStep \/ CombineAnyStep
SplitSpec == SplitInit /\ [][SplitNext]_vars

(* ------------------------------ properties ----------------------------- *)

\* C2: for every master key and every 2 <= T <= N <= the largest share
\* count, combineShares of any T of the N shares of splitMasterKey(mk, T, N)
\* is mk.key.
C2_SplitCombineRoundTrip ==
    sh.stage = "combined" => sh.out = Ok(sh.masterKey.key)

(* Helpers of the properties over the calls' histories. *)

\* The instance of the package test: three backends, 2-of-3.
TwoOfThree ==
    config.threshold = 2 /\ config.totalShares = 3 /\ config.chains = ChainSet

RegisterSucceeded(r) ==
    procs[r].op = "register" /\ procs[r].pc = "done" /\ procs[r].result.ok
LoginDone(l) == procs[l].op = "login" /\ procs[l].pc = "done"
LoginSucceeded(l) == LoginDone(l) /\ procs[l].result.ok
LoginFailedWith(l, e) == LoginDone(l) /\ procs[l].result = Err(e)

\* No share of the call's user was stored, removed or altered while the call
\* ran, and every backend call of it was answered.
Undisturbed(q) == ~procs[q].interf /\ procs[q].faults = {}

\* The share register r returned for chain c, as a sequence of 0 or 1 shares.
ReturnedFor(r, c) ==
    LET shares == procs[r].result.value.shares
    IN IF \E k \in 1..Len(shares) : shares[k].chain = c
       THEN <<shares[CHOOSE k \in 1..Len(shares) : shares[k].chain = c]>>
       ELSE <<>>

\* Call q started with chain c holding the share register r returned for it.
SawIntact(q, r, c) == procs[q].snap[c] # <<>> /\ procs[q].snap[c] = ReturnedFor(r, c)
\* Call q started with chain c holding no share of its user.
SawNone(q, c) == procs[q].snap[c] = <<>>
\* Call q started with chain c holding the share of register r with
\* encryptedData, iv or tag altered.
SawAltered(q, r, c) ==
    /\ procs[q].snap[c] # <<>> /\ ReturnedFor(r, c) # <<>>
    /\ \E f \in Fields : procs[q].snap[c][1] = Alter(ReturnedFor(r, c)[1], f)

\* C1: after register(pk) succeeded on the 2-of-3 instance with three
\* backends, a login(pk) that finds every returned share as stored succeeds
\* with a master key whose hash is the masterKeyHash register returned.
C1_LoginReturnsRegisteredKey ==
    \A r \in Procs, l \in Procs :
        ( /\ TwoOfThree /\ RegisterSucceeded(r) /\ LoginDone(l)
          /\ procs[l].pk = procs[r].pk /\ Undisturbed(l)
          /\ \A c \in ChainSet : SawIntact(l, r, c) )
        => /\ procs[l].result.ok
           /\ hashMasterKey(procs[l].result.value.masterKey)
                  = procs[r].result.value.masterKeyHash

\* C3: with a stored share's encryptedData, iv or tag altered after
\* register(pk), login(pk) does not succeed with another master key than the
\* registered one, and fails only with InsufficientShares.
C3_AlteredShareNeverWrongKey ==
    \A r \in Procs, l \in Procs :
        ( /\ RegisterSucceeded(r) /\ LoginDone(l)
          /\ procs[l].pk = procs[r].pk /\ Undisturbed(l)
          /\ \A c \in config.chains : SawIntact(l, r, c) \/ SawAltered(l, r, c)
          /\ \E c \in config.chains : SawAltered(l, r, c) )
        => IF procs[l].result.ok
           THEN hashMasterKey(procs[l].result.value.masterKey)
                    = procs[r].result.value.masterKeyHash
           ELSE procs[l].result = Err("InsufficientShares")

\* Login l ran after register r with the share of chain `gone` removed and
\* the others as returned.
OneRemoved(l, r, gone) ==
    /\ TwoOfThree /\ RegisterSucceeded(r) /\ LoginDone(l)
    /\ procs[l].pk = procs[r].pk /\ Undisturbed(l)
    /\ SawNone(l, gone)
    /\ \A c \in ChainSet \ {gone} : SawIntact(l, r, c)

\* C4: 2-of-3 with three backends: after a successful register(pk) and the
\* removal of the share of any single backend, login(pk) succeeds and
\* reports sharesUsed = 2.
C4_LoginSurvivesOneRemoval ==
    \A r \in Procs, l \in Procs, gone \in ChainSet :
        OneRemoved(l, r, gone)
        => procs[l].result.ok /\ procs[l].result.value.sharesUsed = 2

C4_Witness ==
    \E r \in Procs, l \in Procs :
        OneRemoved(l, r, "starknet") /\ procs[l].result.ok

\* The isRegistered call of q has returned (its verdict is procs[q].isReg).
IsRegisteredReturned(q) == procs[q].pc = "isRegReturn"

\* C5 as stated: whenever isRegistered(uid) returns, it returns true iff at
\* least threshold enabled backends hold a share for uid at that moment.
C5_IsRegisteredIffThresholdHeld ==
    \A q \in Procs :
        IsRegisteredReturned(q)
        => (procs[q].isReg <=> HoldersCount(UserOf(q)) >= config.threshold)

\* C5 amended: the same, for a call during which no share of uid was
\* stored, removed or altered by anyone else.
C5_IsRegisteredIffThresholdHeldQuiet ==
    \A q \in Procs :
        IsRegisteredReturned(q) /\ ~procs[q].interf
        => (procs[q].isReg <=> HoldersCount(UserOf(q)) >= config.threshold)

C5_Witness ==
    \E q \in Procs :
        /\ IsRegisteredReturned(q) /\ ~procs[q].interf /\ procs[q].isReg
        /\ HoldersCount(UserOf(q)) = config.threshold

\* The enabled backends that held a share of q's user when q was invoked.
HeldAtStart(q) == {c \in config.chains : procs[q].snap[c] # <<>>}

\* Register q was invoked with isRegistered(generateUserId(pk)) true.
InvokedRegistered(q) ==
    /\ procs[q].op = "register" /\ procs[q].pc = "done" /\ Undisturbed(q)
    /\ Cardinality(HeldAtStart(q)) >= config.threshold

\* C6: register(pk) invoked where isRegistered(generateUserId(pk)) is true
\* fails as already registered, calls store on no backend and leaves the
\* stored shares as they were.
C6_RegisterRefusedWhenRegistered ==
    \A q \in Procs :
        InvokedRegistered(q)
        => /\ procs[q].result = Err("AlreadyRegistered")
           /\ procs[q].puts = <<>>
           /\ Snapshot(UserOf(q)) = procs[q].snap

C6_Witness ==
    \E q \in Procs :
        InvokedRegistered(q) /\ procs[q].result = Err("AlreadyRegistered")

\* Register r ended because a storage.store was rejected.
AbortedOnPut(r) ==
    /\ procs[r].op = "register" /\ procs[r].pc = "done"
    /\ \E c \in ChainSet : <<"store", c>> \in procs[r].faults

\* Call q was invoked with exactly the shares stored that the aborted
\* register r had put before its failure.
SawLeftBy(q, r) ==
    /\ q # r /\ procs[q].pc # "idle" /\ procs[q].pk = procs[r].pk
    /\ \A k \in 1..Len(getEnabledChains) :
          procs[q].snap[getEnabledChains[k]] =
              IF k <= Len(procs[r].encryptedShares)
              THEN <<procs[r].encryptedShares[k]>> ELSE <<>>

\* What C7 asks of a call q made while the user is to count as unregistered.
TreatedUnregistered(q) ==
    /\ procs[q].pc \in {"isRegReturn", "store", "fetch"} => ~procs[q].isReg
    /\ LoginDone(q) => procs[q].result = Err("NotRegistered")

\* C7 as stated: after a register(pk) aborted on a failed put, and before a
\* register(pk) succeeds, isRegistered(uid) is false and login(pk) fails
\* with NotRegistered.
C7_AbortedRegisterLeavesUnregistered ==
    \A r \in Procs, q \in Procs :
        AbortedOnPut(r) /\ SawLeftBy(q, r) /\ Undisturbed(q)
        => TreatedUnregistered(q)

\* C7 amended: the same, for a register aborted before threshold shares
\* were stored.
C7_AbortedBelowThresholdLeavesUnregistered ==
    \A r \in Procs, q \in Procs :
        /\ AbortedOnPut(r) /\ Len(procs[r].encryptedShares) < config.threshold
        /\ SawLeftBy(q, r) /\ Undisturbed(q)
        => TreatedUnregistered(q)

C7_Witness ==
    \E r \in Procs, q \in Procs :
        /\ AbortedOnPut(r) /\ Len(procs[r].encryptedShares) = config.threshold - 1
        /\ SawLeftBy(q, r) /\ Undisturbed(q)
        /\ LoginFailedWith(q, "NotRegistered")

\* C8: when the put on the k-th enabled backend fails, register fails with
\* that error, has called store on the first k enabled backends only, and
\* the shares put on backends 1..k-1 are still stored.
C8_FailedPutAbortsWithoutRollback ==
    \A r \in Procs :
        AbortedOnPut(r)
        => LET k == Len(procs[r].puts)
               enabledChains == getEnabledChains
           IN /\ procs[r].result = BackendUnavailable
              /\ procs[r].faults = {<<"store", enabledChains[k]>>}
              /\ procs[r].puts = SubSeq(enabledChains, 1, k)
              /\ Len(procs[r].encryptedShares) = k - 1
              /\ ~procs[r].interf =>
                    \A j \in 1..(k - 1) :
                        fetch(enabledChains[j], UserOf(r)) =
                            [found |-> TRUE, share |-> procs[r].encryptedShares[j]]

C8_Witness ==
    \E r \in Procs :
        /\ AbortedOnPut(r) /\ Len(procs[r].puts) = 2 /\ ~procs[r].interf
        /\ Len(getEnabledChains) = 3
        /\ exists("zcash", UserOf(r)) /\ ~exists("solana", UserOf(r))

\* C9: a BackendUnavailable of one backend during login(pk), on exists or on
\* fetch, is not fatal: with threshold other backends holding the shares a
\* successful register returned, login succeeds.
C9_OneBackendDownLoginSucceeds ==
    \A r \in Procs, l \in Procs :
        ( /\ RegisterSucceeded(r) /\ LoginDone(l) /\ procs[l].pk = procs[r].pk
          /\ ~procs[l].interf
          /\ \E op \in {"exists", "fetch"}, down \in config.chains :
                /\ procs[l].faults = {<<op, down>>}
                /\ Cardinality({c \in config.chains \ {down} : SawIntact(l, r, c)})
                       >= config.threshold )
        => procs[l].result.ok

\* Login l ran after register r with only the share of chain `kept` left.
TwoRemoved(l, r, kept) ==
    /\ TwoOfThree /\ RegisterSucceeded(r) /\ LoginDone(l)
    /\ procs[l].pk = procs[r].pk /\ Undisturbed(l)
    /\ SawIntact(l, r, kept)
    /\ \A c \in ChainSet \ {kept} : SawNone(l, c)

\* C10 as stated: 2-of-3, two of the three shares removed after a
\* successful register(pk): login(pk) fails with InsufficientShares.
C10_TwoRemovedInsufficientShares ==
    \A r \in Procs, l \in Procs, kept \in ChainSet :
        TwoRemoved(l, r, kept) => procs[l].result = Err("InsufficientShares")

\* C10 amended: it fails with NotRegistered, and with no other error.
C10_TwoRemovedNotRegistered ==
    \A r \in Procs, l \in Procs, kept \in ChainSet :
        TwoRemoved(l, r, kept) => procs[l].result = Err("NotRegistered")

C10_Witness ==
    \E r \in Procs, l \in Procs :
        TwoRemoved(l, r, "solana") /\ ~procs[l].result.ok

\* C11: a successful register(pk) stores and returns exactly totalShares
\* encrypted shares, the i-th with shareIndex i, put on and tagged with the
\* i-th enabled backend.
C11_RegisterStoresTotalShares ==
    \A r \in Procs :
        RegisterSucceeded(r)
        => LET shares == procs[r].result.value.shares
           IN /\ Len(shares) = config.totalShares
              /\ Len(procs[r].puts) = config.totalShares
              /\ \A i \in 1..Len(shares) :
                    /\ shares[i].shareIndex = i
                    /\ shares[i].chain = getEnabledChains[i]
                    /\ procs[r].puts[i] = getEnabledChains[i]

\* C12: no ZkAuth instance exists whose threshold is below 2, whose
\* totalShares exceeds the maximum splitMasterKey supports, or whose enabled
\* backends number fewer than its threshold.
C12_ConstructorRejectsBadConfig ==
    /\ config.threshold >= 2
    /\ config.totalShares <= MaxTotalShares
    /\ Len(getEnabledChains) >= config.threshold

\* combineShares was handed shares with a repeated x.
PickedRepeats == \E a, b \in 1..Len(sh.picked) : a # b /\ sh.picked[a] = sh.picked[b]

\* combineShares failed with an invalid-input error.
InvalidInput(out) ==
    /\ ~out.ok
    /\ out.error \in {"Need at least 2 shares to combine",
                      "Duplicate share indices detected"}

\* C13: combineShares returns a key only when given at least threshold
\* shares with pairwise distinct x; given a repeated x, or fewer shares than
\* the threshold they were split with, it fails with an invalid-input error.
C13_CombineRequiresThresholdDistinct ==
    sh.stage = "combinedAny"
    => /\ sh.out.ok => Len(sh.picked) >= sh.threshold /\ ~PickedRepeats
       /\ PickedRepeats \/ Len(sh.picked) < sh.threshold => InvalidInput(sh.out)

\* The y values splitMasterKey can produce at the share positions `at`, over
\* every outcome of randomFieldElement.
SharesSeenAt(masterKey, threshold, totalShares, at) ==
    {[i \in at |-> splitMasterKey(masterKey, threshold, totalShares, random).value.shares[i].y] :
        random \in RandomCoefficients(threshold)}

\* The all-zero master key, the key every other is compared with.
ZeroKey == generateMasterKey([d \in 1..KeyHexLen |-> 0])

\* C14: threshold-1 shares reveal nothing about the master key: at every
\* threshold-1 share positions, the value tuples a split can produce are the
\* same set for this master key as for the all-zero key (hence for all keys).
C14_BelowThresholdSharesIndependentOfKey ==
    sh.stage = "split" /\ sh.split.ok
    => \A at \in SUBSET (1..sh.totalShares) :
          Cardinality(at) = sh.threshold - 1
          => SharesSeenAt(sh.masterKey, sh.threshold, sh.totalShares, at)
             = SharesSeenAt(ZeroKey, sh.threshold, sh.totalShares, at)

C14_Witness ==
    /\ sh.stage = "split" /\ sh.split.ok
    /\ sh.threshold = 3 /\ sh.totalShares = MaxShares
    /\ FromDigits(sh.masterKey.key, 16) > PRIME


(* -------------------- ZkAuth.createSession, sessions ------------------- *)

\* register / login, the backends and split / combine at rest.
CoreIdle ==
    /\ config = ZkAuthConstructor([chains |-> ChainSet, threshold |-> 2,
                                   totalShares |-> 3]).value
    /\ memoryStore = [c \in ChainSet |-> <<>>]
    /\ procs = [p \in Procs |-> IdleProc]
    /\ envLeft = 0 /\ alterLeft = 0 /\ faultsLeft = 0 /\ maxRunning = 0
    /\ sh = NoSplit

\* Date.now() advances; it never goes back.
Tick ==
    /\ now < MaxTime
    /\ now' = now + 1

\* register / login, the backends and split / combine take no step.
CoreUnchanged ==
    UNCHANGED <<config, memoryStore, procs, envLeft, alterLeft, faultsLeft, maxRunning, sh>>

\* A step of the clock, of the session, of the token, of the TOTP code alone.
OnlyClock == CoreUnchanged /\ UNCHANGED <<session, tok, totp, backup, otp, ledger, ident, bk, web, flow>>
OnlySession == CoreUnchanged /\ UNCHANGED <<tok, totp, backup, otp, ledger, ident, bk, web, flow>>
OnlyToken == CoreUnchanged /\ UNCHANGED <<session, totp, backup, otp, ledger, ident, bk, web, flow>>
OnlyTotp == CoreUnchanged /\ UNCHANGED <<session, tok, backup, otp, ledger, ident, bk, web, flow>>
OnlyBackup == CoreUnchanged /\ UNCHANGED <<now, session, tok, totp, otp, ledger, ident, bk, web, flow>>
OnlyOtp == CoreUnchanged /\ UNCHANGED <<now, session, tok, totp, backup, ledger, ident, bk, web, flow>>
OnlyChain == CoreUnchanged /\ UNCHANGED <<now, session, tok, totp, backup, otp, ident, bk, web, flow>>
OnlyWeb == CoreUnchanged /\ UNCHANGED <<now, session, tok, totp, backup, otp, ledger, ident, bk, flow>>
OnlyFlow == CoreUnchanged /\ UNCHANGED <<now, session, tok, totp, backup, otp, ledger, ident, bk, web>>
OnlyIdent == CoreUnchanged /\ UNCHANGED <<now, session, tok, totp, backup, otp, ledger, bk, web, flow>>

\* encryptData(data, masterKey), for the random iv
encryptData(data, masterKey, iv) ==
    LET ciphertext == gcmCipher(masterKey.keyBytes, iv, data)
    IN [ciphertext |-> ciphertext, iv |-> iv,
        tag |-> gcmTag(masterKey.keyBytes, iv, ciphertext)]

\* decryptData(encrypted, masterKey): decipher.final throws on a tag mismatch.
decryptData(encrypted, masterKey) ==
    IF encrypted.tag = gcmTag(masterKey.keyBytes, encrypted.iv, encrypted.ciphertext)
    THEN Ok(encrypted.ciphertext.pt)
    ELSE Err("AuthenticationFailure")

\* The LoginResult values sessions are made from.
LoginResults ==
    {[userId |-> generateUserId(pk), masterKey |-> generateMasterKey(key),
      sharesUsed |-> 2] : pk \in PKs, key \in MasterKeyBytes}

\* The strings session.encrypt is given, and the values session.decrypt is
\* given: made under a master key, some with the tag altered.
SessionData == {"a", "b"}
SessionEncrypted ==
    LET made == {encryptData(d, generateMasterKey(key), 0) :
                    d \in SessionData, key \in MasterKeyBytes}
    IN made \cup {[e EXCEPT !.tag = <<"altered", @[2], @[3], @[4]>>] : e \in made}

\* Variant: the session is refused from the instant expiresAt on.
sessionExpired_early(expiresAt) == now >= expiresAt

\* `Date.now() > expiresAt` of session.encrypt and session.decrypt.
sessionExpired(expiresAt) == now > expiresAt

\* createSession(loginResult, expiresInMs)
createSession(loginResult, expiresInMs) ==
    /\ session.stage = "none"
    /\ session' = [NoSession EXCEPT !.stage = "created",
                                    !.loginResult = loginResult,
                                    !.createdAt = now,
                                    !.expiresInMs = expiresInMs,
                                    !.expiresAt = now + expiresInMs]
    /\ UNCHANGED now

\* What a use of the session leaves behind: the operation, its input, the
\* instant, its outcome, and whether an earlier use had been refused.
SessionUsed(op, input, iv, result) ==
    [session EXCEPT !.last = [op |-> op, input |-> input, iv |-> iv, at |-> now,
                              result |-> result, afterRefusal |-> session.refused],
                    !.refused = @ \/ result = Err("SessionExpired")]

\* session.encrypt(data)
sessionEncrypt(data, iv) ==
    /\ session.stage = "created"
    /\ session' = SessionUsed("encrypt", data, iv,
                     IF sessionExpired(session.expiresAt)
                     THEN Err("SessionExpired")
                     ELSE Ok(encryptData(data, session.loginResult.masterKey, iv)))
    /\ UNCHANGED now

\* session.decrypt(encrypted)
sessionDecrypt(encrypted) ==
    /\ session.stage = "created"
    /\ session' = SessionUsed("decrypt", encrypted, 0,
                     IF sessionExpired(session.expiresAt)
                     THEN Err("SessionExpired")
                     ELSE decryptData(encrypted, session.loginResult.masterKey))
    /\ UNCHANGED now

SessionInit == CoreIdle /\ AuxIdle

SessionNext ==
    \/ Tick /\ OnlyClock
    \/ \E loginResult \in LoginResults, expiresInMs \in (-1)..MaxTtl :
          createSession(loginResult, expiresInMs) /\ OnlySession
    \/ \E data \in SessionData, iv \in {0, 1} :
          sessionEncrypt(data, iv) /\ OnlySession
    \/ \E encrypted \in SessionEncrypted :
          sessionDecrypt(encrypted) /\ OnlySession

SessionSpec == SessionInit /\ [][SessionNext]_vars

\* What the AEAD under the session's master key gives for the last use.
Delegated(last) ==
    IF last.op = "encrypt"
    THEN Ok(encryptData(last.input, session.loginResult.masterKey, last.iv))
    ELSE decryptData(last.input, session.loginResult.masterKey)

\* C15: a session created at createdAt with lifetime expiresInMs refuses
\* encrypt and decrypt with SessionExpired at every instant after
\* createdAt + expiresInMs and delegates to the AEAD under its master key at
\* every instant up to it; once a use was refused, every later use is.
C15_SessionRefusedAfterExpiry ==
    session.last # <<>>
    => LET last == session.last
       IN /\ last.at > session.createdAt + session.expiresInMs
                => last.result = Err("SessionExpired")
          /\ last.at <= session.createdAt + session.expiresInMs
                => last.result = Delegated(last)
          /\ last.afterRefusal => last.result = Err("SessionExpired")

C15_Witness ==
    /\ session.last # <<>> /\ session.last.afterRefusal
    /\ session.last.op = "decrypt"
    /\ session.expiresInMs = MaxTtl

(* --------------------- session tokens (sessionToken.ts) ---------------- *)

\* Math.floor(Date.now() / 1000)
nowSeconds == now \div MsPerSecond

\* A hex string is a sequence of characters; bytes are numbers 0..255.
LowerHex == <<"0", "1", "2", "3", "4", "5", "6", "7", "8", "9", "a", "b", "c", "d", "e", "f">>
UpperHex == <<"0", "1", "2", "3", "4", "5", "6", "7", "8", "9", "A", "B", "C", "D", "E", "F">>

\* bytesToHex(bytes): two lowercase digits per byte
bytesToHex(bytes) ==
    [i \in 1..(2 * Len(bytes)) |->
        LET b == bytes[(i + 1) \div 2]
        IN IF i % 2 = 1 THEN LowerHex[(b \div 16) + 1] ELSE LowerHex[(b % 16) + 1]]

\* The value of a hex digit in either case; -1 for any other character.
hexDigit(c) ==
    IF \E v \in 1..16 : LowerHex[v] = c THEN (CHOOSE v \in 1..16 : LowerHex[v] = c) - 1
    ELSE IF \E v \in 1..16 : UpperHex[v] = c THEN (CHOOSE v \in 1..16 : UpperHex[v] = c) - 1
    ELSE -1

\* parseInt(two characters, 16) stored into a Uint8Array: the leading hex
\* digits count, and NaN is stored as 0.
parseInt16(c1, c2) ==
    IF hexDigit(c1) = -1 THEN 0
    ELSE IF hexDigit(c2) = -1 THEN hexDigit(c1)
    ELSE 16 * hexDigit(c1) + hexDigit(c2)

\* hexToBytes(hex): hex.length / 2 bytes (the length is truncated)
hexToBytes(hex) ==
    [i \in 1..(Len(hex) \div 2) |-> parseInt16(hex[2 * i - 1], hex[2 * i])]

\* The seeds of the private keys, and the length of a signature in bytes.
Seeds == {1, 2}
SignatureLength == 2

\* nacl.sign.keyPair.fromSeed(seed).publicKey
publicKeyFromSeed(seed) == <<seed[1]>>

\* The payload fields tokens are made with.
ZkIds == <<"zk1", "zk2">>
Emails == <<"e", "x">>
PayloadInputs ==
    {[zkId |-> z, email |-> Emails[1], googleUserId |-> "g"] : z \in {ZkIds[1], ZkIds[2]}}

\* JSON.stringify(payload): the text, which names every field in order.
JSONstringifyPayload(payload) ==
    <<"json", payload.zkId, payload.email, payload.googleUserId, payload.iat, payload.exp>>

\* nacl.sign.detached(message, secretKey): a signature that no other message
\* and no other key gives (the bytes spell key, zkId, email, iat and exp).
signDetached(message, seed) ==
    << (seed[1] * 64 + (IF message[2] = ZkIds[1] THEN 0 ELSE 32)
           + (IF message[3] = Emails[1] THEN 0 ELSE 16) + message[5]) % 256,
       (message[6] + 160) % 256 >>

\* nacl.sign.detached.verify(message, signature, publicKey): throws on a
\* signature or key of the wrong size.
verifyDetached(message, signature, publicKey) ==
    IF Len(signature) # SignatureLength THEN Err("bad signature size")
    ELSE IF Len(publicKey) # 1 THEN Err("bad public key size")
    ELSE Ok(signature = signDetached(message, publicKey))

\* btoa(JSON.stringify(token)) and its inverse atob / JSON.parse.
btoaJSON(value) == [encoding |-> "base64", text |-> "json", value |-> value]

\* createSessionToken(payload, privateKeyHex, expiryHours)
createSessionToken(payload, privateKeyHex, expiryHours) ==
    LET fullPayload == [zkId |-> payload.zkId, email |-> payload.email,
                        googleUserId |-> payload.googleUserId,
                        iat |-> nowSeconds,
                        exp |-> nowSeconds + (expiryHours * SecondsPerHour)]
        seed == SubSeq(hexToBytes(privateKeyHex), 1, 1)
        message == JSONstringifyPayload(fullPayload)
        signature == signDetached(message, seed)
    IN btoaJSON([type |-> "object", payload |-> fullPayload,
                 signature |-> bytesToHex(signature),
                 publicKey |-> bytesToHex(publicKeyFromSeed(seed))])

\* parseSessionToken(tokenString): null when atob or JSON.parse throws
parseSessionToken(tokenString) ==
    IF tokenString.encoding = "base64" /\ tokenString.text = "json"
    THEN Ok(tokenString.value) ELSE Err("null")

\* The try block of verifySessionToken; Err("throw") is an exception in it.
verifyTried(tokenString) ==
    LET parsed == parseSessionToken(tokenString)
    IN IF ~parsed.ok \/ parsed.value.type = "null" THEN Err("null")
       ELSE IF parsed.value.type # "object" THEN Err("throw")
       ELSE LET token == parsed.value
            IN IF token.payload.exp < nowSeconds THEN Err("null")
               ELSE LET isValid == verifyDetached(JSONstringifyPayload(token.payload),
                                                  hexToBytes(token.signature),
                                                  hexToBytes(token.publicKey))
                    IN IF ~isValid.ok THEN Err("throw")
                       ELSE IF ~isValid.value THEN Err("null")
                       ELSE Ok(token.payload)

\* verifySessionToken(tokenString): the catch returns null.
verifySessionToken(tokenString) ==
    LET tried == verifyTried(tokenString)
    IN IF tried.ok THEN tried ELSE Err("null")

\* The private keys (hex) tokens are signed with.
PrivateKeys == {bytesToHex(<<seed>>) : seed \in Seeds}

\* The expiryHours argument: omitted (<<>>) or a number.
ExpiryArguments == {<<>>} \cup {<<h>> : h \in (-1)..MaxExpiryHours}

\* A client creates a token.
CreateToken(payload, privateKeyHex, expiryArgument) ==
    LET expiryHours == IF expiryArgument = <<>> THEN DefaultExpiryHours
                       ELSE expiryArgument[1]
        tokenString == createSessionToken(payload, privateKeyHex, expiryHours)
    IN /\ tok.stage = "none"
       /\ tok' = [NoToken EXCEPT !.stage = "created",
                                 !.tokenString = tokenString,
                                 !.payload = tokenString.value.payload,
                                 !.expiryHours = expiryHours]
       /\ UNCHANGED now

\* The hex string with its letters in upper case.
upperCased(hex) == [i \in 1..Len(hex) |-> UpperHex[hexDigit(hex[i]) + 1]]

\* The hex string with its last digit replaced by the next one.
lastDigitChanged(hex) ==
    [hex EXCEPT ![Len(hex)] = LowerHex[((hexDigit(@) + 1) % 16) + 1]]

\* The ways a token is changed after signing: a payload field, the signature
\* text, or the whole string replaced by one that does not parse to a token.
TokenAlterations(tokenString) ==
    LET token == tokenString.value
    IN {[altered |-> "payload", tokenString |-> btoaJSON(t)] :
           t \in {[token EXCEPT !.payload.zkId = IF @ = ZkIds[1] THEN ZkIds[2] ELSE ZkIds[1]],
                  [token EXCEPT !.payload.exp = @ + 1],
                  [token EXCEPT !.payload.iat = @ + 1],
                  [token EXCEPT !.payload.email = Emails[2]]}}
       \cup
       {[altered |-> "signature", tokenString |-> btoaJSON([token EXCEPT !.signature = sig])] :
           sig \in {upperCased(token.signature), lastDigitChanged(token.signature),
                    Append(token.signature, "0"), SubSeq(token.signature, 1, 2)}
                   \ {token.signature}}
       \cup
       {[altered |-> "unparseable", tokenString |-> t] :
           t \in {[encoding |-> "none", text |-> "none", value |-> [type |-> "none"]],
                  [encoding |-> "base64", text |-> "none", value |-> [type |-> "none"]],
                  btoaJSON([type |-> "null"]),
                  btoaJSON([type |-> "number"])}}

\* The stored token is changed after signing.
AlterToken ==
    /\ tok.stage = "created" /\ tok.altered = "none"
    /\ \E a \in TokenAlterations(tok.tokenString) :
          tok' = [tok EXCEPT !.altered = a.altered, !.tokenString = a.tokenString]
    /\ UNCHANGED now

\* verifySessionToken(tokenString) is called.
VerifyToken ==
    /\ tok.stage = "created"
    /\ tok' = [tok EXCEPT !.stage = "verified", !.at = nowSeconds,
                          !.result = verifySessionToken(tok.tokenString)]
    /\ UNCHANGED now

TokenInit == CoreIdle /\ AuxIdle

TokenNext ==
    \/ Tick /\ OnlyClock
    \/ \E payload \in PayloadInputs, privateKeyHex \in PrivateKeys,
          expiryArgument \in ExpiryArguments :
          CreateToken(payload, privateKeyHex, expiryArgument) /\ OnlyToken
    \/ AlterToken /\ OnlyToken
    \/ VerifyToken /\ OnlyToken

TokenSpec == TokenInit /\ [][TokenNext]_vars

\* C16: verifySessionToken on a token made by createSessionToken returns
\* the token's payload at every instant up to exp, and returns null when the
\* string does not parse, when exp is past, or when the payload or the
\* signature was altered after signing.
C16_VerifyReturnsPayloadOrNull ==
    tok.stage = "verified"
    => /\ tok.altered = "none" /\ tok.at <= tok.payload.exp
             => tok.result = Ok(tok.payload)
       /\ tok.altered # "none" \/ tok.payload.exp < tok.at
             => tok.result = Err("null")

\* C17: every token createSessionToken produces has exp = iat + ttl, ttl
\* being expiryHours hours (the default when omitted), and exp > iat.
C17_TokenExpiryAfterIssue ==
    tok.stage # "none"
    => /\ tok.payload.exp = tok.payload.iat + tok.expiryHours * SecondsPerHour
       /\ tok.payload.exp > tok.payload.iat

(* ------------------------------ TOTP (totp.ts) ------------------------- *)

\* The time step of an instant: Math.floor(seconds / period) in OTPAuth.
timeStep == nowSeconds \div TOTP_PERIOD

Digits == <<"0", "1", "2", "3", "4", "5", "6", "7", "8", "9">>

\* The decimal digits of n as characters, at least len of them.
RECURSIVE digitChars(_, _)
digitChars(n, len) ==
    IF n = 0 /\ len <= 0 THEN <<>>
    ELSE Append(digitChars(n \div 10, len - 1), Digits[(n % 10) + 1])

\* OTPAuth.Secret.fromBase32(secret): throws on a string that is not base32.
TotpSecrets == <<"JBSWY3DP", "KRSXG5BA">>
fromBase32(secret) ==
    IF secret = TotpSecrets[1] THEN Ok(1)
    ELSE IF secret = TotpSecrets[2] THEN Ok(2)
    ELSE Err("throw")

\* OTPAuth.HOTP.generate: the TOTP_DIGITS-digit code of a secret and a
\* counter; codes of distinct counters differ.
hotpGenerate(key, counter) == digitChars(key * 100 + counter + TOTP_WINDOW, TOTP_DIGITS)

\* Variant: only the current step and the one before are tried.
totpValidate_past(key, token, window) ==
    IF \E delta \in (-window)..0 : hotpGenerate(key, timeStep + delta) = token
    THEN Ok(CHOOSE delta \in (-window)..0 : hotpGenerate(key, timeStep + delta) = token)
    ELSE Err("null")

\* totp.validate({token, window}): the delta of the matching step within the
\* window around the current step, or null.
totpValidate(key, token, window) ==
    IF \E delta \in (-window)..window : hotpGenerate(key, timeStep + delta) = token
    THEN Ok(CHOOSE delta \in (-window)..window : hotpGenerate(key, timeStep + delta) = token)
    ELSE Err("null")

\* code.replace(/\s/g, '')
stripWhitespace(code) == SelectSeq(code, LAMBDA c : c # " ")

\* /^\d{6}$/.test(normalizedCode)
isSixDigits(normalizedCode) ==
    /\ Len(normalizedCode) = TOTP_DIGITS
    /\ \A i \in 1..Len(normalizedCode) : \E d \in 1..10 : Digits[d] = normalizedCode[i]

\* verifyTOTP(code, secret)
verifyTOTP(code, secret) ==
    LET normalizedCode == stripWhitespace(code)
    IN IF ~isSixDigits(normalizedCode) THEN FALSE
       ELSE LET key == fromBase32(secret)
            IN IF ~key.ok THEN FALSE
               ELSE totpValidate(key.value, normalizedCode, TOTP_WINDOW).ok

\* The authenticator shows the code of its time step; its clock is the
\* verifier's or up to MaxSkew steps ahead.
GenerateCode(secret, skew) ==
    /\ totp.stage = "none"
    /\ totp' = [NoTotp EXCEPT !.stage = "generated", !.secret = secret,
                              !.step = timeStep + skew]
    /\ UNCHANGED now

\* The ways the user types the code shown: as shown, with blanks, with a
\* digit short or over, with a letter.
TypedCodes(code) ==
    [asShown |-> code,
     blanks |-> <<" ">> \o SubSeq(code, 1, 3) \o <<" ">> \o SubSeq(code, 4, Len(code)) \o <<" ">>,
     short |-> SubSeq(code, 1, Len(code) - 1),
     over |-> Append(code, "0"),
     letter |-> [code EXCEPT ![1] = "x"]]

\* verifyTOTP(code, secret) is called with the code as typed.
VerifyCode(how) ==
    /\ totp.stage = "generated"
    /\ LET code == TypedCodes(hotpGenerate(fromBase32(totp.secret).value, totp.step))[how]
       IN totp' = [totp EXCEPT !.stage = "verified", !.typed = how,
                               !.verifiedStep = timeStep,
                               !.result = verifyTOTP(code, totp.secret)]
    /\ UNCHANGED now

TotpInit == CoreIdle /\ AuxIdle

TotpNext ==
    \/ Tick /\ OnlyClock
    \/ \E secret \in {TotpSecrets[1], TotpSecrets[2]}, skew \in 0..MaxSkew :
          GenerateCode(secret, skew) /\ OnlyTotp
    \/ \E how \in {"asShown", "blanks", "short", "over", "letter"} :
          VerifyCode(how) /\ OnlyTotp

TotpSpec == TotpInit /\ [][TotpNext]_vars

\* C18: verifyTOTP accepts the code of time step s, verified in time step v
\* with the same secret, exactly when |v - s| <= 1, blanks in it ignored; a
\* code that is not six decimal digits once blanks are removed is rejected.
C18_TotpAcceptedWithinOneStep ==
    totp.stage = "verified"
    => LET distance == IF totp.verifiedStep >= totp.step
                       THEN totp.verifiedStep - totp.step
                       ELSE totp.step - totp.verifiedStep
       IN /\ totp.typed \in {"asShown", "blanks"} => (totp.result <=> distance <= 1)
          /\ totp.typed \in {"short", "over", "letter"} => ~totp.result

C18_Witness ==
    /\ totp.stage = "verified" /\ totp.typed = "blanks"
    /\ totp.step = totp.verifiedStep + 1 /\ totp.result

(* ------------------- backup codes (zk2fa/crypto.ts) -------------------- *)

\* The characters generateBackupCodes draws from (two letters and a digit of
\* its 36), and the half-length of a code (4 in the program).
BackupChars == <<"A", "B", "7">>
BackupHalf == 1

\* String.toUpperCase on a character.
toUpperCase(c) == IF c = "a" THEN "A" ELSE IF c = "b" THEN "B" ELSE c

\* generateBackupCodes: the drawn characters with a '-' in the middle.
backupCodeShown(drawn) ==
    SubSeq(drawn, 1, BackupHalf) \o <<"-">> \o SubSeq(drawn, BackupHalf + 1, Len(drawn))

BackupCodesDrawn ==
    [1..BackupCodeCount -> {backupCodeShown(d) : d \in [1..(2 * BackupHalf) -> {BackupChars[k] : k \in 1..Len(BackupChars)}]}]

\* code.replace('-', ''): the first '-' removed.
RECURSIVE removeFirstDash(_)
removeFirstDash(code) ==
    IF code = <<>> THEN <<>>
    ELSE IF Head(code) = "-" THEN Tail(code)
    ELSE <<Head(code)>> \o removeFirstDash(Tail(code))

\* hashWithSHA256(data)
hashWithSHA256(data) == sha256(data)

\* startSetup: the hashes stored for the codes shown.
hashBackupCodes(backupCodes) ==
    [i \in 1..Len(backupCodes) |->
        hashWithSHA256([k \in 1..Len(removeFirstDash(backupCodes[i])) |->
                           toUpperCase(removeFirstDash(backupCodes[i])[k])])]

\* code.toUpperCase().replace(/[^A-Z0-9]/g, '')
normalizeBackupCode(code) ==
    SelectSeq([k \in 1..Len(code) |-> toUpperCase(code[k])],
              LAMBDA c : \E i \in 1..Len(BackupChars) : BackupChars[i] = c)

\* verifyBackupCode(code, hashedCodes)
verifyBackupCode(code, hashedCodes) ==
    LET normalizedCode == normalizeBackupCode(code)
        codeHash == hashWithSHA256(normalizedCode)
    IN \E i \in 1..Len(hashedCodes) : hashedCodes[i] = codeHash

\* 2FA setup: codes are generated and their hashes become the user's
\* totpBackupCodes.
SetupBackupCodes(backupCodes) ==
    /\ backup.stage = "none"
    /\ backup' = [NoBackup EXCEPT !.stage = "setup",
                                  !.backupCodes = backupCodes,
                                  !.totpBackupCodes = hashBackupCodes(backupCodes)]

\* The ways a code is typed: as shown, without the dash, in lower case.
lowerCased(code) ==
    [k \in 1..Len(code) |-> IF code[k] = "A" THEN "a" ELSE IF code[k] = "B" THEN "b" ELSE code[k]]
BackupTyped(code) == {code, removeFirstDash(code), lowerCased(code)}

\* A backup code is presented against the user's stored hash list.
PresentBackupCode(code) ==
    /\ backup.stage = "setup"
    /\ LET result == verifyBackupCode(code, backup.totpBackupCodes)
           normalizedCode == normalizeBackupCode(code)
       IN backup' = [backup EXCEPT
                        !.last = [code |-> code, result |-> result,
                                  acceptedBefore |-> normalizedCode \in backup.accepted],
                        !.accepted = IF result THEN @ \cup {normalizedCode} ELSE @]

BackupInit == CoreIdle /\ AuxIdle

BackupNext ==
    \/ \E backupCodes \in BackupCodesDrawn : SetupBackupCodes(backupCodes) /\ OnlyBackup
    \/ \E i \in 1..Len(backup.backupCodes) : \E code \in BackupTyped(backup.backupCodes[i]) :
          PresentBackupCode(code) /\ OnlyBackup
    \/ \E code \in {<<"7", "-", "7">>, <<"B", "-", "A">>} :
          PresentBackupCode(code) /\ OnlyBackup

BackupSpec == BackupInit /\ [][BackupNext]_vars

\* C19: backup codes are one-shot: a code that verifyBackupCode accepted
\* against the user's stored hash list is rejected when presented again.
C19_BackupCodeOneShot ==
    backup.last # <<>> /\ backup.last.acceptedBefore => ~backup.last.result

(* --------------- signed email-OTP challenge (useVerifyEmailOTP) --------- *)

\* The hook's props other than masterKeyHash.
OtpEmail == "a@x"
OtpGoogleUserId == "g1"

\* The master-key hashes a hook is mounted with ('' is a missing one), and
\* the one the server binds its challenges to.
OtpMasterKeyHashes == {"", "m1", "m2"}
ServerMasterKeyHashes == {"m1"}

\* The codes the server mails, already normalized.
ServerCodes == {<<"1", "2", "3", "4", "5", "6">>, <<"A", "7", "B", "7", "A", "7">>}

\* code.replace(/\s/g, '').toUpperCase()
normalizeOtpCode(code) ==
    [k \in 1..Len(stripWhitespace(code)) |-> toUpperCase(stripWhitespace(code)[k])]

\* hashWithSHA256(`${email}:${googleUserId}:${normalizedCode}`)
otpComputedHash(email, googleUserId, normalizedCode) ==
    hashWithSHA256(<<email, ":", googleUserId, ":", normalizedCode>>)

\* hashWithSHA256(`${computedHash}:${masterKeyHash}`)
otpSignature(computedHash, masterKeyHash) ==
    hashWithSHA256(<<computedHash, ":", masterKeyHash>>)

\* The hook is mounted with its props.
MountOtp(masterKeyHash) ==
    /\ ~otp.mounted
    /\ otp' = [NoOtp EXCEPT !.mounted = TRUE, !.masterKeyHash = masterKeyHash]

\* The send endpoint's answers (SignedOTPResponse): success with the
\* signature of the code it mailed and an expiry, either of the two being
\* optional; a refusal, or no answer at all (fetch throws).
SendResponses ==
    {[ok |-> TRUE, signature |-> signature, expiresAt |-> expiresAt] :
        signature \in {otpSignature(otpComputedHash(OtpEmail, OtpGoogleUserId, code), mkh) :
                          code \in ServerCodes, mkh \in ServerMasterKeyHashes} \cup {<<>>},
        expiresAt \in {now + ttl : ttl \in 1..MaxTtl} \cup {0}}
    \cup {[ok |-> FALSE, signature |-> <<>>, expiresAt |-> 0]}

\* sendOtp(): of a successful answer, the signature, if it has one, replaces
\* signatureRef, and the expiry, if it has one, replaces expiresAt.
sendOtp(data) ==
    /\ otp.mounted
    /\ otp' = IF data.ok
              THEN [otp EXCEPT !.signatureRef = IF data.signature # <<>>
                                                THEN data.signature ELSE @,
                               !.expiresAt = IF data.expiresAt # 0 THEN data.expiresAt ELSE @,
                               !.otpSent = TRUE,
                               !.signedExpiresAt = IF data.signature # <<>>
                                                   THEN data.expiresAt ELSE @,
                               !.latest = [signature |-> data.signature # <<>>,
                                           expiresAt |-> data.expiresAt # 0
                                                         \/ otp.expiresAt = 0],
                               !.last = <<>>]
              ELSE otp

\* expiresAt && Date.now() > expiresAt
otpExpired(expiresAt) == expiresAt # 0 /\ now > expiresAt

\* verify(code), with the answer of the server verify endpoint should it be
\* asked ("success", "failure", or "throws").
verifyOtp(code, server) ==
    /\ otp.mounted
    /\ LET normalizedCode == normalizeOtpCode(code)
           computedHash == otpComputedHash(OtpEmail, OtpGoogleUserId, normalizedCode)
           expectedSignature == otpSignature(computedHash, otp.masterKeyHash)
           done(result, asked) ==
               [code |-> code, at |-> now, result |-> result, serverAsked |-> asked,
                verdict |-> IF asked THEN server ELSE "none",
                held |-> otp.signatureRef # <<>>,
                challenge |-> [signature |-> otp.signatureRef,
                               expiresAt |-> otp.signedExpiresAt],
                latest |-> otp.latest]
       IN IF Len(code) < OtpMinLength
          THEN otp' = [otp EXCEPT !.last = done("invalid", FALSE)]
          ELSE IF otp.masterKeyHash = ""
          THEN otp' = [otp EXCEPT !.last = done("noKey", FALSE)]
          ELSE IF otpExpired(otp.expiresAt)
          THEN otp' = [otp EXCEPT !.otpSent = FALSE, !.last = done("expired", FALSE)]
          ELSE IF otp.signatureRef # <<>> /\ expectedSignature = otp.signatureRef
          THEN otp' = [otp EXCEPT !.signatureRef = <<>>, !.otpSent = FALSE,
                                  !.last = done("accepted", FALSE)]
          ELSE IF server = "success"
          THEN otp' = [otp EXCEPT !.otpSent = FALSE, !.last = done("accepted", TRUE)]
          ELSE otp' = [otp EXCEPT !.last = done("rejected", TRUE)]

\* The ways the mailed code is typed: as mailed, in lower case, with a blank
\* in the middle, without its last character.
OtpTyped(code) ==
    {code, lowerCased(code), SubSeq(code, 1, 3) \o <<" ">> \o SubSeq(code, 4, Len(code)),
     SubSeq(code, 1, Len(code) - 1)}

OtpInit == CoreIdle /\ AuxIdle

OtpNext ==
    \/ (now < MaxOtpTime /\ Tick) /\ OnlyClock
    \/ \E masterKeyHash \in OtpMasterKeyHashes : MountOtp(masterKeyHash) /\ OnlyOtp
    \/ \E data \in SendResponses : sendOtp(data) /\ OnlyOtp
    \/ \E mailed \in ServerCodes : \E code \in OtpTyped(mailed) :
          \E server \in {"success", "failure", "throws"} : verifyOtp(code, server) /\ OnlyOtp

OtpSpec == OtpInit /\ [][OtpNext]_vars

\* verify() returned true without asking the server verify endpoint.
AcceptedLocally == otp.last # <<>> /\ otp.last.result = "accepted" /\ ~otp.last.serverAsked

\* C20: verify accepts a code locally (returns true without calling the server
\* verify endpoint) only if sha256(sha256(email:userId:normalizedCode):masterKeyHash)
\* equals the signature the server issued and the challenge has not expired;
\* it never accepts locally at a time after the challenge's expiry.
C20_LocalAcceptOnlySignedUnexpired ==
    AcceptedLocally =>
        /\ otp.last.challenge.signature # <<>>
        /\ otpSignature(otpComputedHash(OtpEmail, OtpGoogleUserId,
                                        normalizeOtpCode(otp.last.code)),
                        otp.masterKeyHash) = otp.last.challenge.signature
        /\ otp.last.challenge.expiresAt # 0 => otp.last.at <= otp.last.challenge.expiresAt

\* verify() was given a well-formed code by a hook holding a master-key hash,
\* and the local check did not accept it.
NotAcceptedLocally ==
    /\ otp.last # <<>>
    /\ Len(otp.last.code) >= OtpMinLength
    /\ otp.masterKeyHash # ""
    /\ ~AcceptedLocally

\* C21: whenever the local signed-OTP check does not accept a well-formed code
\* (no signature held, signature mismatch, or challenge expired), verify asks
\* the server verify endpoint and returns the server's verdict.
C21_FallsBackToServer ==
    NotAcceptedLocally =>
        /\ otp.last.serverAsked
        /\ (otp.last.result = "accepted") <=> (otp.last.verdict = "success")

\* C39: after a successful sendOtp, verify accepts locally, or refuses a
\* code as expired, only by the signature and the expiry of the most recent
\* successful sendOtp, never by those of an earlier one; and a signature
\* accepted locally is cleared, so that it is not accepted locally again.
C39_OnlyLatestChallengeUsed ==
    /\ (AcceptedLocally /\ otp.last.latest # <<>>) =>
          /\ otp.last.latest.signature
          /\ otp.last.latest.expiresAt
          /\ otp.signatureRef = <<>>
    /\ (otp.last # <<>> /\ otp.last.result = "expired" /\ otp.last.latest # <<>>) =>
          otp.last.latest.expiresAt

(* ------------------ 2FA state on the commit log (zk2fa/storage.ts) ------ *)

\* String.toLowerCase on a character.
toLowerCase(c) == IF c = "A" THEN "a" ELSE IF c = "B" THEN "b" ELSE c

\* String.trim
RECURSIVE trimStart(_)
trimStart(str) ==
    IF str # <<>> /\ Head(str) = " " THEN trimStart(Tail(str)) ELSE str
RECURSIVE trimEnd(_)
trimEnd(str) ==
    IF str # <<>> /\ str[Len(str)] = " " THEN trimEnd(SubSeq(str, 1, Len(str) - 1)) ELSE str
trim(str) == trimEnd(trimStart(str))

\* email.toLowerCase().trim()
normalizeEmail(email) == trim([k \in 1..Len(email) |-> toLowerCase(email[k])])

\* simpleHash(input)
simpleHash(input) == <<"simpleHash", input>>

\* derive2FALookupKeyClient(email, googleUserId)
derive2FALookupKeyClient(email, googleUserId) ==
    <<"zkauth_2fa:",
      simpleHash(<<googleUserId, "zkauth-lookup-v3-decentralized:">>
                 \o normalizeEmail(email) \o <<":2fa:lookup">>)>>

\* The user whose 2FA state is read, and another user writing to the same log.
ChainEmail == <<"a", "@", "b">>
ChainUserIds == <<"g1", "g2">>

\* What a memo's encryptedData holds: text that is not JSON, or JSON whose
\* totpEnabled is a boolean, a string, or missing.
MemoContents ==
    {[json |-> FALSE, totpEnabled |-> "undefined", totpSecret |-> "undefined"],
     [json |-> TRUE, totpEnabled |-> "true", totpSecret |-> "S1"],
     [json |-> TRUE, totpEnabled |-> "false", totpSecret |-> "undefined"],
     [json |-> TRUE, totpEnabled |-> "\"yes\"", totpSecret |-> "S2"]}

\* The memo transactions written to the log: the user's 2FA records, a record
\* of another type, and another user's 2FA record.
MemoRecords ==
    {[type |-> "2fa_secret", lookupKey |-> derive2FALookupKeyClient(ChainEmail, ChainUserIds[1]),
      encryptedData |-> c] : c \in MemoContents}
    \cup {[type |-> t[1], lookupKey |-> derive2FALookupKeyClient(ChainEmail, t[2]),
           encryptedData |-> CHOOSE c \in MemoContents : c.totpEnabled = "true"] :
             t \in {<<"share", ChainUserIds[1]>>, <<"2fa_secret", ChainUserIds[2]>>}}

\* A memo transaction is committed; getSignaturesForAddress lists the youngest first.
CommitMemo(rec) ==
    /\ Len(ledger.log) < MaxLog
    /\ ledger' = [ledger EXCEPT !.log = <<rec>> \o @]

\* How a request to the RPC endpoint ends.
RpcOutcomes == {"ok", "error", "timeout"}

\* fetchMemoFromTransaction(signature, lookupKey, config), for the transaction
\* `tx` behind the signature and the way the getTransaction request ends.
fetchMemoFromTransaction(tx, lookupKey, outcome) ==
    IF outcome # "ok" THEN <<>>
    ELSE IF tx.type = "2fa_secret" /\ tx.lookupKey = lookupKey
    THEN [type |-> "2fa_secret", lookupKey |-> tx.lookupKey,
          encryptedData |-> tx.encryptedData]
    ELSE <<>>

\* The loop of fetch2FAPointerFromSolana over the signatures from position i.
RECURSIVE pointerFrom(_, _, _, _)
pointerFrom(log, lookupKey, txOutcomes, i) ==
    IF i > Len(log) THEN <<>>
    ELSE LET pointer == fetchMemoFromTransaction(log[i], lookupKey, txOutcomes[i])
         IN IF pointer # <<>> THEN pointer
            ELSE pointerFrom(log, lookupKey, txOutcomes, i + 1)

\* fetch2FAPointerFromSolana(lookupKey, walletAddress, config)
fetch2FAPointerFromSolana(log, lookupKey, sigOutcome, txOutcomes) ==
    IF sigOutcome # "ok" THEN <<>>
    ELSE pointerFrom(log, lookupKey, txOutcomes, 1)

\* parseTwoFAState(data)
parseTwoFAState(data) ==
    IF ~data.json THEN <<>>
    ELSE IF data.totpEnabled \notin {"true", "false"} THEN <<>>
    ELSE [totpSecret |-> IF data.totpSecret = "undefined" THEN "" ELSE data.totpSecret,
          totpEnabled |-> data.totpEnabled]

\* get2FAStateFromChain(email, googleUserId, walletAddress, config)
get2FAStateFromChain(log, email, googleUserId, sigOutcome, txOutcomes) ==
    LET lookupKey == derive2FALookupKeyClient(email, googleUserId)
        pointer == fetch2FAPointerFromSolana(log, lookupKey, sigOutcome, txOutcomes)
    IN IF pointer = <<>> THEN Ok(<<>>) ELSE Ok(parseTwoFAState(pointer.encryptedData))

\* The requests get2FAStateFromChain issued: getSignaturesForAddress, then
\* getTransaction for each signature up to the one that gave the pointer.
RECURSIVE issuedUpTo(_, _, _, _)
issuedUpTo(log, lookupKey, txOutcomes, i) ==
    IF i > Len(log) THEN {}
    ELSE {i} \cup (IF fetchMemoFromTransaction(log[i], lookupKey, txOutcomes[i]) # <<>> THEN {}
                   ELSE issuedUpTo(log, lookupKey, txOutcomes, i + 1))

\* The state is read for the user, each request ending as the endpoint decides.
Get2FAState(email, sigOutcome, txOutcomes) ==
    LET lookupKey == derive2FALookupKeyClient(email, ChainUserIds[1])
        issued == IF sigOutcome = "ok" THEN issuedUpTo(ledger.log, lookupKey, txOutcomes, 1) ELSE {}
    IN ledger' = [ledger EXCEPT !.last =
           [email |-> email, log |-> ledger.log,
            returned |-> get2FAStateFromChain(ledger.log, email, ChainUserIds[1],
                                              sigOutcome, txOutcomes),
            timedOut |-> sigOutcome = "timeout" \/ \E i \in issued : txOutcomes[i] = "timeout",
            failed |-> sigOutcome # "ok" \/ \E i \in issued : txOutcomes[i] # "ok"]]

ChainInit == CoreIdle /\ AuxIdle

ChainNext ==
    \/ \E rec \in MemoRecords : CommitMemo(rec) /\ OnlyChain
    \/ \E email \in {ChainEmail, <<" ", "A", "@", "b">>} :
       \E sigOutcome \in RpcOutcomes, txOutcomes \in [1..Len(ledger.log) -> RpcOutcomes] :
          Get2FAState(email, sigOutcome, txOutcomes) /\ OnlyChain

ChainSpec == ChainInit /\ [][ChainNext]_vars

\* The user's records of the log, youngest first, and the state of the
\* youngest of them whose content is valid.
RECURSIVE youngestValidFrom(_, _, _)
youngestValidFrom(log, lookupKey, i) ==
    IF i > Len(log) THEN <<>>
    ELSE IF /\ log[i].type = "2fa_secret" /\ log[i].lookupKey = lookupKey
            /\ parseTwoFAState(log[i].encryptedData) # <<>>
    THEN parseTwoFAState(log[i].encryptedData)
    ELSE youngestValidFrom(log, lookupKey, i + 1)

\* C22: get2FAStateFromChain returns the state parsed from the youngest record
\* of type '2fa_secret' with the user's lookupKey whose content parses with a
\* boolean totpEnabled, skipping younger matching records with invalid
\* content, and null when there is no such record (every request answered).
C22_YoungestValidRecord ==
    (ledger.last # <<>> /\ ~ledger.last.failed) =>
        ledger.last.returned =
            Ok(youngestValidFrom(ledger.last.log,
                                 derive2FALookupKeyClient(ChainEmail, ChainUserIds[1]), 1))

\* C23: when a commit-log request issued by get2FAStateFromChain times out,
\* the operation fails with BackendUnavailable; a timeout is never reported
\* as null.
C23_TimeoutIsBackendUnavailable ==
    (ledger.last # <<>> /\ ledger.last.timedOut) => ledger.last.returned = BackendUnavailable

(* --------------------- identity derivations (lookup.ts) ----------------- *)

LOOKUP_NAMESPACE == "zkauth-lookup-v3-decentralized"

\* createHmac('sha256', key).update(input).digest('hex')
hmacSha256(key, input) == <<"hmac-sha256", key, input>>

\* hash.substring(0, n)
substring(hash, n) == <<"substring", hash, n>>

\* deriveKey(googleUserId, email, purpose)
deriveKey(googleUserId, email, purpose) ==
    LET normalizedEmail == normalizeEmail(email)
        input == <<LOOKUP_NAMESPACE, ":">> \o normalizedEmail \o <<":", purpose>>
    IN hmacSha256(googleUserId, input)

\* deriveLookupKeys(email, googleUserId)
deriveLookupKeys(email, googleUserId) ==
    LET normalizedEmail == normalizeEmail(email)
        baseHash == deriveKey(googleUserId, normalizedEmail, "base")
    IN [starknetLookupKey |-> deriveKey(googleUserId, normalizedEmail, "starknet:lookup"),
        solanaLookupKey |-> deriveKey(googleUserId, normalizedEmail, "solana:lookup"),
        zcashLookupKey |-> deriveKey(googleUserId, normalizedEmail, "zcash:lookup"),
        userId |-> <<"zkauth:", substring(baseHash, 16)>>]

\* deriveUuidFromGoogleId(googleUserId, email, purpose)
deriveUuidFromGoogleId(googleUserId, email, purpose) ==
    <<"uuid", deriveKey(googleUserId, email, purpose)>>

\* deriveShareLookupKeys(email, googleUserId)
deriveShareLookupKeys(email, googleUserId) ==
    LET normalizedEmail == normalizeEmail(email)
        chains == <<"zcash", "starknet", "solana">>
    IN [i \in 1..Len(chains) |->
          [chain |-> chains[i], shareIndex |-> i,
           proofId |-> deriveUuidFromGoogleId(googleUserId, normalizedEmail, <<"share:", i, ":proof">>),
           dataKey |-> deriveUuidFromGoogleId(googleUserId, normalizedEmail, <<"share:", i, ":data">>),
           ivKey |-> deriveUuidFromGoogleId(googleUserId, normalizedEmail, <<"share:", i, ":iv">>),
           tagKey |-> deriveUuidFromGoogleId(googleUserId, normalizedEmail, <<"share:", i, ":tag">>)]]

\* deriveUserId(email, googleUserId)
deriveUserId(email, googleUserId) ==
    <<"zkauth:", substring(deriveKey(googleUserId, normalizeEmail(email), "userid"), 16)>>

\* derive2FALookupKey(email, googleUserId)
derive2FALookupKey(email, googleUserId) ==
    <<"zkauth_2fa:", deriveKey(googleUserId, normalizeEmail(email), "2fa:lookup")>>

\* deriveWrappingKey(googleUserId, email)
deriveWrappingKey(googleUserId, email) ==
    sha256(<<"zkauth-wrap-v1:", googleUserId, ":">> \o normalizeEmail(email))

\* deriveLookupKey(email, googleUserId) of the client: SHA-256 of
\* email + googleUserId, its first 32 hex digits.
deriveLookupKey(email, googleUserId) ==
    substring(sha256(email \o <<googleUserId>>), 32)

\* The derivations, by name.
Derivations ==
    {"deriveLookupKeys", "deriveShareLookupKeys", "deriveUserId", "derive2FALookupKey",
     "deriveWrappingKey", "derive2FALookupKeyClient", "deriveLookupKey"}

derive(which, email, googleUserId) ==
    CASE which = "deriveLookupKeys" -> deriveLookupKeys(email, googleUserId)
      [] which = "deriveShareLookupKeys" -> deriveShareLookupKeys(email, googleUserId)
      [] which = "deriveUserId" -> deriveUserId(email, googleUserId)
      [] which = "derive2FALookupKey" -> derive2FALookupKey(email, googleUserId)
      [] which = "deriveWrappingKey" -> deriveWrappingKey(googleUserId, email)
      [] which = "derive2FALookupKeyClient" -> derive2FALookupKeyClient(email, googleUserId)
      [] which = "deriveLookupKey" -> deriveLookupKey(email, googleUserId)

\* Emails as they are typed: one address in several spellings, and another.
EmailSpellings ==
    {<<"a", "@", "b">>, <<"A", "@", "b">>, <<"a", "@", "B">>, <<" ", "a", "@", "b">>,
     <<"A", "@", "B", " ", " ">>, <<"b", "@", "a">>, <<"a", " ", "@", "b">>}

\* One derivation is applied to two emails for the same googleUserId.
Derive(which, email, other, googleUserId) ==
    ident' = [which |-> which, email |-> email, other |-> other,
              googleUserId |-> googleUserId,
              forEmail |-> derive(which, email, googleUserId),
              forOther |-> derive(which, other, googleUserId)]

IdentInit == CoreIdle /\ AuxIdle

IdentNext ==
    \E which \in Derivations, email \in EmailSpellings, other \in EmailSpellings,
       googleUserId \in {ChainUserIds[1], ChainUserIds[2]} :
        Derive(which, email, other, googleUserId) /\ OnlyIdent

IdentSpec == IdentInit /\ [][IdentNext]_vars

\* The letters of the email without regard to case, blanks at the ends dropped.
RECURSIVE sameLetters(_, _)
sameLetters(a, b) ==
    IF a = <<>> \/ b = <<>> THEN a = b
    ELSE /\ toUpperCase(Head(a)) = toUpperCase(Head(b))
         /\ sameLetters(Tail(a), Tail(b))
DifferOnlyInCaseOrOuterBlanks(a, b) == sameLetters(trim(a), trim(b))

\* C24: every identity derivation returns the same output for two emails that
\* differ only in letter case or in leading/trailing whitespace, for a fixed
\* userId.
C24_DerivationsIgnoreCaseAndBlanks ==
    (ident # <<>> /\ DifferOnlyInCaseOrOuterBlanks(ident.email, ident.other)) =>
        ident.forEmail = ident.forOther

(* ---------------- the storage backends called directly ----------------- *)

\* The users and shares the backends are called with.
StorageUsers == {generateUserId(1), generateUserId(2)}
StorageShares(chain) ==
    {encryptShare([x |-> 1, y |-> y], 1, chain, 1, <<0, 1>>) : y \in 0..1}

\* storage.store(userId, share) on the backends' maps.
store(ms, chain, userId, share) ==
    [ms EXCEPT ![chain] = MapSet(@, getStorageKey(chain, userId), share)]

\* A call of store, fetch or exists on one backend.
BackendCall(op, chain, userId, share) ==
    /\ memoryStore' = IF op = "store" THEN store(memoryStore, chain, userId, share)
                      ELSE memoryStore
    /\ bk' = [latest |-> IF op = "store"
                         THEN MapSet(bk.latest, <<chain, userId>>, share) ELSE bk.latest,
              last |-> [op |-> op, chain |-> chain, userId |-> userId,
                        share |-> IF op = "store" THEN share ELSE undefined,
                        before |-> memoryStore,
                        returned |-> CASE op = "store" -> Ok(mockTxHash(chain, 0))
                                       [] op = "fetch" -> fetch(chain, userId)
                                       [] op = "exists" -> Ok(exists(chain, userId))]]

StorageInit == CoreIdle /\ AuxIdle

OnlyStorage ==
    UNCHANGED <<config, procs, envLeft, alterLeft, faultsLeft, maxRunning, sh,
                now, session, tok, totp, backup, otp, ledger, ident, web, flow>>

StorageNext ==
    \/ \E chain \in ChainSet, userId \in StorageUsers : \E share \in StorageShares(chain) :
          BackendCall("store", chain, userId, share) /\ OnlyStorage
    \/ \E chain \in ChainSet, userId \in StorageUsers :
          BackendCall("fetch", chain, userId, undefined) /\ OnlyStorage
    \/ \E chain \in ChainSet, userId \in StorageUsers :
          BackendCall("exists", chain, userId, undefined) /\ OnlyStorage

StorageSpec == StorageInit /\ [][StorageNext]_vars

\* The entry a backend holds for a user in the maps ms.
EntryIn(ms, chain, userId) == MapGet(ms[chain], getStorageKey(chain, userId))

\* C25: for each backend and every sequence of store / fetch / exists calls,
\* exists(u) is true exactly when fetch(u) returns a share, fetch(u) returns
\* the share of the latest store(u, .), storing the same share again leaves
\* the stored state unchanged, and a store for user u changes neither another
\* user's entry nor any other backend.
C25_BackendsAgreeAndIsolate ==
    /\ \A chain \in ChainSet, userId \in StorageUsers :
          /\ exists(chain, userId) <=> fetch(chain, userId).found
          /\ fetch(chain, userId) =
                IF MapHas(bk.latest, <<chain, userId>>)
                THEN [found |-> TRUE, share |-> bk.latest[<<chain, userId>>]]
                ELSE [found |-> FALSE]
    /\ bk.last # <<>> =>
          /\ bk.last.op # "store" => memoryStore = bk.last.before
          /\ (/\ bk.last.op = "store"
              /\ EntryIn(bk.last.before, bk.last.chain, bk.last.userId) = bk.last.share)
                => memoryStore = bk.last.before
          /\ \A chain \in ChainSet, userId \in StorageUsers :
                <<chain, userId>> # <<bk.last.chain, bk.last.userId>> =>
                    EntryIn(memoryStore, chain, userId) = EntryIn(bk.last.before, chain, userId)

\* A share was stored again for a user who held it, while another user and
\* another backend held shares too.
C25_Witness ==
    /\ bk.last # <<>> /\ bk.last.op = "store"
    /\ EntryIn(bk.last.before, bk.last.chain, bk.last.userId) = bk.last.share
    /\ \E userId \in StorageUsers : userId # bk.last.userId /\ exists(bk.last.chain, userId)
    /\ \E chain \in ChainSet : chain # bk.last.chain /\ exists(chain, bk.last.userId)

(* ------------------ register / login: further properties ---------------- *)

\* The register invocations whose shares userId holds on the backends now
\* (encryptShare's random iv tells them apart; an iv altered from outside
\* names none).
SplitsHeld(userId) ==
    {fetch(c, userId).share.iv[1] : c \in {d \in config.chains : exists(d, userId)}} \ {0}

\* C26: whenever isRegistered(uid) holds, all shares stored for uid across the
\* backends come from one single splitMasterKey call, also when register(pk)
\* invocations for the same pk interleave (nothing is removed or altered from
\* outside).
C26_StoredSharesFromOneSplit ==
    \A pk \in PKs :
        (/\ maxRunning = NumProcs
         /\ HoldersCount(generateUserId(pk)) >= config.threshold)
            => Cardinality(SplitsHeld(generateUserId(pk))) <= 1

(* ------------- stored shares copied or relabelled from outside ---------- *)

\* The share one backend holds for a user is written to another backend.
Copy(from, to, pk) ==
    LET userId == generateUserId(pk) IN
    /\ envLeft > 0 /\ from # to
    /\ exists(from, userId)
    /\ memoryStore' = store(memoryStore, to, userId, fetch(from, userId).share)
    /\ procs' = Disturb(procs, 0, userId)
    /\ envLeft' = envLeft - 1
    /\ UNCHANGED <<config, alterLeft, faultsLeft, maxRunning, sh, aux>>

\* The shareIndex field of a stored share, which no tag covers, is changed.
Relabel(chain, pk) ==
    LET userId == generateUserId(pk)
        k == getStorageKey(chain, userId)
    IN
    /\ envLeft > 0 /\ alterLeft > 0
    /\ exists(chain, userId)
    /\ memoryStore' = [memoryStore EXCEPT ![chain][k].shareIndex = (@ % MaxTotalShares) + 1]
    /\ procs' = Disturb(procs, 0, userId)
    /\ envLeft' = envLeft - 1
    /\ alterLeft' = alterLeft - 1
    /\ UNCHANGED <<config, faultsLeft, maxRunning, sh, aux>>

EnvNext ==
    \/ Next
    \/ \E from \in ChainSet, to \in ChainSet, pk \in PKs : Copy(from, to, pk)
    \/ \E c \in ChainSet, pk \in PKs : Relabel(c, pk)

EnvSpec == Init /\ [][EnvNext]_vars

\* The shares the backends held for login l when it started that decrypt
\* under its pk, by backend, and their x values.
ValidAtStart(l) ==
    {c \in config.chains :
        /\ procs[l].snap[c] # <<>>
        /\ decryptShare(procs[l].snap[c][1], procs[l].pk).ok}
DistinctXAtStart(l) ==
    {decryptShare(procs[l].snap[c][1], procs[l].pk).value.x : c \in ValidAtStart(l)}

\* C27: login counts only valid shares with pairwise distinct x toward the
\* threshold: a duplicate x is not counted and the remaining backends are
\* polled, so a login that can obtain T distinct valid shares succeeds, and
\* one that cannot fails with InsufficientShares.
C27_LoginCountsDistinctShares ==
    \A l \in Procs :
        (LoginDone(l) /\ Undisturbed(l) /\ procs[l].isReg /\ config.threshold >= 2) =>
            IF Cardinality(DistinctXAtStart(l)) >= config.threshold
            THEN LoginSucceeded(l)
            ELSE LoginFailedWith(l, "InsufficientShares")

\* C30: decryptShare, and therefore login, rejects an EncryptedShare whose
\* shareIndex differs from the x of the ShareData it decrypts to: such a
\* share is never among the shares login reconstructs from.
C30_IndexMismatchNeverUsed ==
    \A l \in Procs :
        (LoginDone(l) /\ Undisturbed(l)) =>
            \A k \in 1..Len(procs[l].fetches) :
                LET c == procs[l].fetches[k]
                    held == procs[l].snap[c]
                IN (/\ held # <<>>
                    /\ decryptShare(held[1], procs[l].pk).ok
                    /\ held[1].shareIndex #
                          FromDigits(decryptShare(held[1], procs[l].pk).value.x, 10))
                   => \A j \in 1..Len(procs[l].fetchedShares) :
                         procs[l].fetchedShares[j] #
                            decryptShare(held[1], procs[l].pk).value

\* Register q was invoked after register r was aborted on a failed put, with
\* exactly the shares r left behind stored, and ran undisturbed to its end.
RetriedAfterAbort(q, r) ==
    /\ AbortedOnPut(r) /\ Len(procs[r].encryptedShares) >= 1
    /\ SawLeftBy(q, r) /\ Undisturbed(q)
    /\ procs[q].op = "register" /\ procs[q].pc = "done"

\* C28 as stated: after a register(pk) aborted midway that left at least one
\* share stored, the next register(pk) fails with AlreadyRegistered, whatever
\* number of shares (from 1 to N) the earlier attempt left behind.
C28_RetryAlwaysAlreadyRegistered ==
    \A r \in Procs, q \in Procs :
        RetriedAfterAbort(q, r) => procs[q].result = Err("AlreadyRegistered")

\* C28 amended: the next register(pk) fails with AlreadyRegistered, without a
\* store, when the earlier attempt left at least threshold shares behind; when
\* it left fewer, the next register is not refused and stores its own shares.
C28_RetryRefusedFromThreshold ==
    \A r \in Procs, q \in Procs :
        RetriedAfterAbort(q, r) =>
            IF Len(procs[r].encryptedShares) >= config.threshold
            THEN procs[q].result = Err("AlreadyRegistered") /\ procs[q].puts = <<>>
            ELSE procs[q].result # Err("AlreadyRegistered") /\ procs[q].puts # <<>>

C28_Witness ==
    \E r \in Procs, q \in Procs :
        /\ RetriedAfterAbort(q, r)
        /\ Len(procs[r].encryptedShares) = config.threshold
        /\ procs[q].result = Err("AlreadyRegistered")

\* C29: login polls the enabled backends in the fixed order zcash, starknet,
\* solana and issues no fetch once threshold shares have been decrypted; every
\* successful login reports sharesUsed = threshold, and login never issues a
\* store.
C29_LoginPollsInOrderUpToThreshold ==
    \A l \in Procs :
        procs[l].op = "login" =>
            /\ procs[l].fetches = SubSeq(getEnabledChains, 1, Len(procs[l].fetches))
            /\ procs[l].pc = "fetch" => Len(procs[l].fetchedShares) < config.threshold
            /\ LoginSucceeded(l) => procs[l].result.value.sharesUsed = config.threshold
            /\ procs[l].puts = <<>>

\* A login succeeded on three enabled backends with two shares, having
\* polled the first two backends or, one of them empty, all three.
C29_Witness ==
    /\ Len(getEnabledChains) = 3
    /\ \E l \in Procs :
          /\ LoginSucceeded(l)
          /\ procs[l].fetches \in {<<"zcash", "starknet">>, <<"zcash", "starknet", "solana">>}
          /\ procs[l].result.value.sharesUsed = 2

(* ------------------- the client's 2FA lookup identifier ----------------- *)

\* C31: the lookup identifier the client selects 2FA records with
\* (derive2FALookupKeyClient) equals the second-factor lookup identifier
\* derive2FALookupKey(email, userId) for every identity, so a record
\* published under the derived identifier is found by the client.
C31_ClientLookupKeyIsDerivedKey ==
    (ident # <<>> /\ ident.which = "derive2FALookupKeyClient") =>
        ident.forEmail = derive2FALookupKey(ident.email, ident.googleUserId)

(* ----------------------- combineShares and order ------------------------ *)

\* The rearrangements of a sequence of share positions.
Rearranged(picked) ==
    {q \in [1..Len(picked) -> {picked[k] : k \in 1..Len(picked)}] :
        \A k \in 1..Len(picked) : \E m \in 1..Len(picked) : q[m] = picked[k]}

\* combineShares was run on shares of the split with pairwise distinct x.
CombinedDistinct ==
    /\ sh.stage \in {"combined", "combinedAny"}
    /\ Len(sh.picked) >= 2
    /\ ~PickedRepeats

\* C32: combineShares is independent of the order of its input: for every
\* list S of shares with distinct x and every permutation S' of S,
\* combineShares(S') = combineShares(S).
C32_CombineIgnoresOrder ==
    CombinedDistinct =>
        \A q \in Rearranged(sh.picked) :
            combineShares([k \in 1..Len(q) |-> sh.split.value.shares[q[k]]]) = sh.out

\* Three shares were combined in an order that is neither increasing nor
\* decreasing, and gave a key.
C32_Witness ==
    /\ CombinedDistinct /\ sh.out.ok
    /\ Len(sh.picked) = 3
    /\ sh.picked[1] < sh.picked[2] /\ sh.picked[3] < sh.picked[2]

(* ------------- useSetup2FA and localStorage (unnamed/part_003) ---------- *)

\* The identity the hooks are mounted for.
WebEmail == ChainEmail
WebGoogleUserId == "g1"

\* A property of a parsed object, undefined when the object has none.
Property(obj, name) == IF name \in DOMAIN obj THEN obj[name] ELSE undefined

\* JSON.stringify of an object.
JSONstringifyData(obj) == <<"json", obj>>

\* A stored string that is not JSON.
NotJson == <<"text", "not json">>

\* The loop of derive2FAStorageKey over `${email}:${googleUserId}` and
\* Math.abs(hash).toString(36): digits and lower-case letters, no ':'.
rollingHash36(combined) == <<"hash36", combined>>

\* derive2FAStorageKey(email, googleUserId)
derive2FAStorageKey(email, googleUserId) ==
    <<"zkterm:2fa:", rollingHash36(email \o <<":", googleUserId>>)>>

\* encryptWithMasterKey(data, masterKeyHash): the EncryptedTwoFAData.
encryptWithMasterKey(data, masterKeyHash) == <<"aes-gcm", masterKeyHash, data>>

\* The props useSetup2FA is mounted with, and whether the page has a
\* localStorage at all.
WebMasterKeyHashes == {"", "m1"}

MountWeb(masterKeyHash, hasStorage) ==
    /\ ~web.mounted
    /\ web' = [web EXCEPT !.mounted = TRUE, !.masterKeyHash = masterKeyHash,
                          !.hasStorage = hasStorage]

\* The backup codes generateBackupCodes may draw here.
SetupBackupCodesDrawn ==
    {b \in BackupCodesDrawn : b[1] = backupCodeShown(<<"A", "B">>) /\ b[2][1] = "7"
                              /\ b[2][3] \in {"A", "7"}}

\* initiateSetup(): a fresh secret and backup codes become the pending setup.
initiateSetup(secret, backupCodes) ==
    /\ web.mounted
    /\ web' = [web EXCEPT !.pendingSetup =
                  [secret |-> secret, backupCodes |-> backupCodes,
                   backupCodesHashed |-> hashBackupCodes(backupCodes)]]

\* Variant: completeSetup goes on whatever masterKeyHash is.
hasMasterKeyHash_always(masterKeyHash) == TRUE

\* if (!masterKeyHash)
hasMasterKeyHash(masterKeyHash) == masterKeyHash # ""

\* completeSetup(code): what it returns and what localStorage holds after.
completeSetupResult(code) ==
    IF web.pendingSetup = <<>>
    THEN [success |-> FALSE, error |-> "No pending setup", localStorage |-> web.localStorage]
    ELSE IF ~hasMasterKeyHash(web.masterKeyHash)
    THEN [success |-> FALSE, error |-> "Master key hash required for encryption",
          localStorage |-> web.localStorage]
    ELSE IF ~verifyTOTP(code, web.pendingSetup.secret)
    THEN [success |-> FALSE, error |-> "Invalid verification code",
          localStorage |-> web.localStorage]
    ELSE LET encryptedSecret == encryptWithMasterKey(web.pendingSetup.secret, web.masterKeyHash)
             totpData == [encryptedSecret |-> encryptedSecret,
                          backupCodesHashed |-> web.pendingSetup.backupCodesHashed,
                          createdAt |-> now, version |-> 1]
             storageKey == derive2FAStorageKey(WebEmail, WebGoogleUserId)
         IN [success |-> TRUE, error |-> "",
             localStorage |-> IF web.hasStorage
                              THEN MapSet(web.localStorage, storageKey, JSONstringifyData(totpData))
                              ELSE web.localStorage]

completeSetup(code) ==
    /\ web.mounted
    /\ LET result == completeSetupResult(code)
       IN web' = [web EXCEPT !.localStorage = result.localStorage,
                             !.last = [code |-> code, success |-> result.success,
                                       error |-> result.error]]

\* confirmBackupCodes()
confirmBackupCodes ==
    /\ web.mounted
    /\ web' = [web EXCEPT !.pendingSetup = <<>>]

\* The codes typed into the setup dialog: the code an authenticator shows
\* for either secret at some time step, as shown, with blanks, a digit short.
MaxStep == (MaxTime \div MsPerSecond) \div TOTP_PERIOD
SetupCodes ==
    {TypedCodes(hotpGenerate(key, step))[how] :
        key \in 1..Len(TotpSecrets), step \in 0..MaxStep, how \in {"asShown", "blanks", "short"}}

SetupInit == CoreIdle /\ AuxIdle

SetupNext ==
    \/ Tick /\ OnlyClock
    \/ \E masterKeyHash \in WebMasterKeyHashes, hasStorage \in BOOLEAN :
          MountWeb(masterKeyHash, hasStorage) /\ OnlyWeb
    \/ \E secret \in {TotpSecrets[k] : k \in 1..Len(TotpSecrets)},
          backupCodes \in SetupBackupCodesDrawn :
          initiateSetup(secret, backupCodes) /\ OnlyWeb
    \/ \E code \in SetupCodes : completeSetup(code) /\ OnlyWeb
    \/ confirmBackupCodes /\ OnlyWeb

SetupSpec == SetupInit /\ [][SetupNext]_vars

\* completeSetup returned, or wrote, in this step.
CompleteSetupStep ==
    web'.last # web.last \/ web'.localStorage # web.localStorage

\* What completeSetup requires before it writes.
SetupMayWrite ==
    /\ web.pendingSetup # <<>>
    /\ web.masterKeyHash # ""
    /\ verifyTOTP(web'.last.code, web.pendingSetup.secret)

\* C33: completeSetup writes 2FA data to localStorage only when a setup is
\* pending, masterKeyHash is not empty and the code passes verifyTOTP
\* against the pending secret; in every other case it returns
\* success = false and leaves localStorage as it was.
C33_SetupWritesOnlyWhenVerified ==
    [][CompleteSetupStep =>
          /\ (web'.localStorage # web.localStorage => SetupMayWrite)
          /\ (~SetupMayWrite =>
                 ~web'.last.success /\ web'.localStorage = web.localStorage)]_vars

\* completeSetup succeeded and the data is in localStorage.
C33_Witness ==
    /\ web.last # <<>> /\ web.last.success
    /\ MapHas(web.localStorage, derive2FAStorageKey(WebEmail, WebGoogleUserId))

(* ------------ useSessionValidation (client/useSessionValidation.ts) ----- *)

\* get2FALocalStorageKey(lookupKey): `zkterm:2fa:local:${lookupKey}`
get2FALocalStorageKey(lookupKey) == <<"zkterm:2fa:local:", lookupKey>>

\* localStorage.getItem(key): null when there is no such item.
getItem(key) == MapGet(web.localStorage, key)

\* parse2FAData(stored2FA): the parsed object, null for no string and for a
\* string that is not JSON.
parse2FAData(stored2FA) ==
    IF stored2FA = undefined THEN undefined
    ELSE IF stored2FA[1] = "json" THEN stored2FA[2]
    ELSE undefined

\* data?.name is true (a flag of a TwoFALocalData).
flagSet(data, name) == name \in DOMAIN data /\ data[name]

\* data?.method === 'email'
methodIsEmail(data) == "method" \in DOMAIN data /\ data.method = "email"

\* data?.encryptedSecret is there and not empty.
hasEncryptedSecret(data) == "encryptedSecret" \in DOMAIN data

\* isValid2FASession(data)
isValid2FASession(data) ==
    IF data = undefined THEN FALSE
    ELSE IF flagSet(data, "disabled") THEN FALSE
    ELSE IF methodIsEmail(data) /\ flagSet(data, "verified") THEN TRUE
    ELSE IF hasEncryptedSecret(data) THEN TRUE
    ELSE FALSE

\* storeEmailOTP2FAMarker(email, googleUserId)
storeEmailOTP2FAMarker(email, googleUserId) ==
    /\ web.mounted
    /\ web' = [web EXCEPT !.localStorage =
                  MapSet(@, get2FALocalStorageKey(deriveLookupKey(email, googleUserId)),
                         JSONstringifyData([method |-> "email", verified |-> TRUE,
                                            verifiedAt |-> now]))]

\* What an earlier visit may have left under the validation's key.
EarlierItems ==
    {NotJson,
     JSONstringifyData([method |-> "totp", disabled |-> TRUE,
                        encryptedSecret |-> encryptWithMasterKey(TotpSecrets[1], "m1")]),
     JSONstringifyData([method |-> "email", verified |-> FALSE]),
     JSONstringifyData([method |-> "totp"]),
     JSONstringifyData([method |-> "totp",
                        encryptedSecret |-> encryptWithMasterKey(TotpSecrets[1], "m1")])}

\* The page is opened with an item of an earlier visit in localStorage.
EarlierVisit(item) ==
    /\ ~web.mounted
    /\ web.localStorage = <<>>
    /\ web' = [web EXCEPT !.localStorage =
                  MapSet(@, get2FALocalStorageKey(deriveLookupKey(WebEmail, WebGoogleUserId)),
                         item)]

\* The props change: the user is logged in or not, the secret phrase is
\* known or not.
SecretPhrases == {"", "phrase"}
SetProps(isLoggedIn, secretPhrase) ==
    /\ web.mounted
    /\ web.isLoggedIn # isLoggedIn \/ web.secretPhrase # secretPhrase
    /\ web' = [web EXCEPT !.isLoggedIn = isLoggedIn, !.secretPhrase = secretPhrase]

\* useZkAuthFlow starts a 2FA step: isAwaiting2FARef.current = true, then
\* the setup modal or a verification modal is shown.
Await2FA(setupModal) ==
    /\ web.mounted
    /\ ~web.isAwaiting2FARef
    /\ web' = [web EXCEPT !.isAwaiting2FARef = TRUE, !.showMandatory2FASetup = setupModal]

\* The 2FA step ends: the modal is closed, isAwaiting2FARef.current = false.
Finish2FA ==
    /\ web.mounted
    /\ web.isAwaiting2FARef
    /\ web' = [web EXCEPT !.isAwaiting2FARef = FALSE, !.showMandatory2FASetup = FALSE]

\* The effect runs validateSession up to its first await: once per mount,
\* for a logged-in user; the props of this render are the ones it goes on with.
validateSessionStart ==
    /\ web.mounted
    /\ ~(web.sessionValidationDoneRef \/ ~web.isLoggedIn)
    /\ web' = [web EXCEPT !.sessionValidationDoneRef = TRUE,
                          !.runs = @ + 1,
                          !.run = [stage |-> "deriveLookupKey",
                                   secretPhrase |-> web.secretPhrase,
                                   showMandatory2FASetup |-> web.showMandatory2FASetup]]

\* Variant: the ref is not looked at before logout is forced.
notAwaiting_any(isAwaiting2FARef) == TRUE

\* !isAwaiting2FARef.current
notAwaiting(isAwaiting2FARef) == ~isAwaiting2FARef

\* What validateSession does once the lookup key is derived:
\* "setup" (require2FASetup), "logout" (forceLogout), "remove" (removeItem),
\* "removeAndSetup", or "none".
validateSessionBranch(stored2FA, parsedData, secretPhrase, showMandatory2FASetup, isAwaiting2FARef) ==
    IF stored2FA = undefined /\ ~showMandatory2FASetup /\ notAwaiting(isAwaiting2FARef)
    THEN (IF secretPhrase # "" THEN "setup" ELSE "logout")
    ELSE IF stored2FA # undefined
    THEN (IF flagSet(parsedData, "disabled") THEN "none"
          ELSE IF methodIsEmail(parsedData) /\ flagSet(parsedData, "verified") THEN "none"
          ELSE IF ~hasEncryptedSecret(parsedData) /\ ~methodIsEmail(parsedData)
          THEN (IF secretPhrase # "" THEN "removeAndSetup" ELSE "remove")
          ELSE IF parsedData = undefined THEN "remove"
          ELSE "none")
    ELSE "none"

\* validateSession after the await of deriveLookupKey.
validateSessionFinish ==
    /\ web.run # <<>> /\ web.run.stage = "deriveLookupKey"
    /\ LET lookupKey == deriveLookupKey(WebEmail, WebGoogleUserId)
           localStorageKey == get2FALocalStorageKey(lookupKey)
           stored2FA == getItem(localStorageKey)
           parsedData == parse2FAData(stored2FA)
           branch == validateSessionBranch(stored2FA, parsedData, web.run.secretPhrase,
                                           web.run.showMandatory2FASetup, web.isAwaiting2FARef)
           setup == branch \in {"setup", "removeAndSetup"}
           remove == branch \in {"remove", "removeAndSetup"}
       IN web' = [web EXCEPT
             !.localStorage = IF remove THEN MapDelete(@, localStorageKey) ELSE @,
             !.isAwaiting2FARef = IF setup THEN TRUE ELSE @,
             !.showMandatory2FASetup = IF setup THEN TRUE ELSE @,
             !.run = IF branch = "logout" THEN [web.run EXCEPT !.stage = "forceLogout"] ELSE <<>>,
             !.validated = [localStorageKey |-> localStorageKey, stored2FA |-> stored2FA,
                            requiredSetup |-> setup, removed |-> remove,
                            forcedLogout |-> branch = "logout",
                            secretPhrase |-> web.run.secretPhrase,
                            isLoggedIn |-> TRUE,
                            showMandatory2FASetup |-> web.showMandatory2FASetup,
                            isAwaiting2FARef |-> web.isAwaiting2FARef,
                            setupSucceeded |-> web.last # <<>> /\ web.last.success,
                            setupKey |-> derive2FAStorageKey(WebEmail, WebGoogleUserId)]]

\* forceLogout(lookupKey) after its two logout requests: the item is removed.
forceLogout ==
    /\ web.run # <<>> /\ web.run.stage = "forceLogout"
    /\ web' = [web EXCEPT
          !.localStorage = MapDelete(@, get2FALocalStorageKey(
                                            deriveLookupKey(WebEmail, WebGoogleUserId))),
          !.run = <<>>]

ValidationInit == CoreIdle /\ AuxIdle

ValidationNext ==
    \/ \E item \in EarlierItems : EarlierVisit(item) /\ OnlyWeb
    \/ MountWeb("m1", TRUE) /\ OnlyWeb
    \/ \E backupCodes \in SetupBackupCodesDrawn :
          initiateSetup(TotpSecrets[1], backupCodes) /\ OnlyWeb
    \/ \E how \in {"asShown", "short"} :
          completeSetup(TypedCodes(hotpGenerate(1, 0))[how]) /\ OnlyWeb
    \/ confirmBackupCodes /\ OnlyWeb
    \/ storeEmailOTP2FAMarker(WebEmail, WebGoogleUserId) /\ OnlyWeb
    \/ \E isLoggedIn \in BOOLEAN, secretPhrase \in SecretPhrases :
          SetProps(isLoggedIn, secretPhrase) /\ OnlyWeb
    \/ \E setupModal \in BOOLEAN : Await2FA(setupModal) /\ OnlyWeb
    \/ Finish2FA /\ OnlyWeb
    \/ validateSessionStart /\ OnlyWeb
    \/ validateSessionFinish /\ OnlyWeb
    \/ forceLogout /\ OnlyWeb

ValidationSpec == ValidationInit /\ [][ValidationNext]_vars

\* C34: after completeSetup returned success for an identity,
\* useSessionValidation for the same identity reads the localStorage entry
\* completeSetup wrote, finds the data, and neither requires 2FA setup nor
\* forces logout.
C34_ValidationFindsSetupData ==
    (web.validated # <<>> /\ web.validated.setupSucceeded) =>
        /\ web.validated.localStorageKey = web.validated.setupKey
        /\ web.validated.stored2FA # undefined
        /\ ~web.validated.requiredSetup
        /\ ~web.validated.forcedLogout

\* C35: when the data stored for a logged-in user does not satisfy
\* isValid2FASession, the validation requires 2FA setup, removes the data
\* or forces logout.
C35_InvalidDataIsActedOn ==
    (web.validated # <<>>
       /\ ~isValid2FASession(parse2FAData(web.validated.stored2FA))) =>
        web.validated.requiredSetup \/ web.validated.removed \/ web.validated.forcedLogout

FlowUsers ==
    {[isRegistered |-> FALSE, masterKeyDistributed |-> FALSE],
     [isRegistered |-> TRUE, masterKeyDistributed |-> TRUE]}

FullyAuthenticated == [isRegistered |-> TRUE, masterKeyDistributed |-> TRUE]

\* isLoggedIn = !!(googleUser?.isRegistered && googleUser?.masterKeyDistributed)
isLoggedIn(f) ==
    f.googleUser # <<>> /\ f.googleUser.isRegistered /\ f.googleUser.masterKeyDistributed

\* The stages of an effect's async function in which its POST
\* /api/zkauth/login is in flight.
LoginStages == {"login", "fallbackLogin"}

\* The effects whose login request is in flight.
loginsInFlight(f) ==
    {e \in {"oauth", "reload"} : IF e = "oauth" THEN f.oauth \in LoginStages
                                  ELSE f.reload \in LoginStages}

\* The page is opened: the component mounts, the user query starts.
\* storedAuthUser is what an earlier visit left in localStorage.
MountFlow(search, storedAuthUser) ==
    /\ ~flow.mounted /\ ~flow.left
    /\ flow' = [flow EXCEPT !.mounted = TRUE, !.dirty = TRUE, !.location = search,
                            !.search = search, !.storedAuthUser = storedAuthUser,
                            !.refetching = TRUE]

\* storeAuthUser(user)
storeAuthUser(f, user) == [f EXCEPT !.storedAuthUser = user]

\* updateStoredAuthFlags({isRegistered: true, masterKeyDistributed: true}):
\* a stored user is updated, none is created.
updateStoredAuthFlags(f) ==
    IF f.storedAuthUser # <<>> THEN [f EXCEPT !.storedAuthUser = FullyAuthenticated] ELSE f

\* The queryFn of the user query answers. With oauth=success in the address
\* the server is asked; else the stored user is returned if there is one.
queryFn(f, serverUser) ==
    IF f.location = "oauth=success"
    THEN [(IF serverUser # <<>> THEN storeAuthUser(f, serverUser) ELSE f)
             EXCEPT !.googleUser = serverUser]
    ELSE IF f.storedAuthUser # <<>>
    THEN [f EXCEPT !.googleUser = f.storedAuthUser]
    ELSE [(IF serverUser # <<>> THEN storeAuthUser(f, serverUser) ELSE f)
             EXCEPT !.googleUser = serverUser]

\* refetchUser() resolves.
RefetchResolve(serverUser) ==
    /\ flow.mounted /\ ~flow.dirty /\ flow.refetching
    /\ flow' = [queryFn(flow, serverUser) EXCEPT !.refetching = FALSE, !.dirty = TRUE]

\* The router hands the address set by history.replaceState to the hook.
SearchFollows ==
    /\ flow.mounted /\ ~flow.dirty
    /\ flow.search # flow.location
    /\ flow' = [flow EXCEPT !.search = flow.location, !.dirty = TRUE]

\* The logged-in user logs out through the page: the stored user is cleared
\* and the user query refetched.
LogoutElsewhere ==
    /\ flow.mounted /\ ~flow.dirty
    /\ isLoggedIn(flow) /\ flow.storedAuthUser # <<>>
    /\ flow' = [flow EXCEPT !.storedAuthUser = <<>>, !.refetching = TRUE]

\* The ref reset effect (deps isLoggedIn, googleUser).
refResetEffect(f) ==
    LET wasLoggedIn == f.prevIsLoggedInRef = "true"
        nowLoggedIn == isLoggedIn(f)
        f1 == [f EXCEPT !.prevIsLoggedInRef = IF nowLoggedIn THEN "true" ELSE "false"]
    IN IF wasLoggedIn /\ ~nowLoggedIn /\ f.googleUser = <<>>
       THEN [f1 EXCEPT !.oauthFlowProcessedRef = FALSE, !.reloadCheckDoneRef = FALSE,
                       !.isAwaiting2FARef = FALSE, !.sealed = FALSE, !.issued = {}]
       ELSE f1

\* The OAuth-callback effect up to its first await. (One run of its async
\* function at a time.)
oauthCallbackEffect(f) ==
    IF f.search = "oauth=success" /\ f.googleUser # <<>> /\ ~f.oauthFlowProcessedRef
       /\ f.oauth = "idle"
    THEN [f EXCEPT !.oauthFlowProcessedRef = TRUE, !.location = "",
                   !.oauth = "check", !.oauthRegistered = f.googleUser.isRegistered]
    ELSE f

\* The reload-check effect up to its first await. (One run of its async
\* function at a time.)
reloadCheckEffect(f) ==
    IF f.googleUser # <<>> /\ f.search # "oauth=success" /\ ~isLoggedIn(f)
       /\ ~f.reloadCheckDoneRef /\ ~f.userDismissedAuthRef /\ ~f.showSecretPhraseModal
       /\ ~f.showMandatory2FASetup /\ ~f.showEmailOtpModal /\ ~f.showTotpModal
       /\ f.reload = "idle"
    THEN [f EXCEPT !.reloadCheckDoneRef = TRUE, !.reload = "check"]
    ELSE f

\* React commits a render and runs the effects in their order, before any
\* other event is handled.
Commit ==
    /\ flow.mounted /\ flow.dirty
    /\ flow' = [reloadCheckEffect(oauthCallbackEffect(refResetEffect(flow)))
                   EXCEPT !.dirty = FALSE, !.lastRefetch = <<>>]

\* The answers of POST /api/zkauth/login.
LoginAnswers ==
    {"needs2FASetup", "needs2FA:totp", "needs2FA:email", "success", "needsRegistration", "error"}

\* processLoginResponse(loginData, user): the state after it, and whether it
\* handled the answer.
processLoginResponse(f, loginData) ==
    CASE loginData = "needs2FASetup" ->
            [handled |-> TRUE,
             f |-> [f EXCEPT !.isAwaiting2FARef = TRUE, !.showMandatory2FASetup = TRUE]]
      [] loginData = "needs2FA:totp" ->
            [handled |-> TRUE,
             f |-> [f EXCEPT !.isAwaiting2FARef = TRUE, !.showTotpModal = TRUE]]
      [] loginData = "needs2FA:email" ->
            [handled |-> TRUE,
             f |-> [f EXCEPT !.isAwaiting2FARef = TRUE, !.showEmailOtpModal = TRUE]]
      [] loginData = "success" ->
            [handled |-> TRUE,
             f |-> [storeAuthUser(f, FullyAuthenticated) EXCEPT !.refetching = TRUE]]
      [] loginData = "needsRegistration" ->
            [handled |-> TRUE, f |-> [f EXCEPT !.showSecretPhraseModal = TRUE]]
      [] OTHER -> [handled |-> FALSE, f |-> f]

\* An effect issues its POST /api/zkauth/login.
issueLogin(f, effect, stage) ==
    [f EXCEPT ![effect] = stage, !.issued = @ \cup {effect}]

\* The OAuth-callback effect: check-user-onchain answers (or throws).
OAuthCheckAnswers(answer) ==
    /\ flow.mounted /\ ~flow.dirty /\ flow.oauth = "check"
    /\ flow' = [(CASE answer = "exists" -> issueLogin(flow, "oauth", "login")
                   [] answer = "new" ->
                        [flow EXCEPT !.showSecretPhraseModal = TRUE, !.refetching = TRUE,
                                     !.oauth = "idle"]
                   [] OTHER ->
                        IF ~flow.oauthRegistered
                        THEN [flow EXCEPT !.showSecretPhraseModal = TRUE, !.oauth = "idle"]
                        ELSE issueLogin(flow, "oauth", "fallbackLogin"))
                  EXCEPT !.dirty = TRUE]

\* The OAuth-callback effect: its login request answers.
OAuthLoginAnswers(loginData) ==
    /\ flow.mounted /\ ~flow.dirty /\ flow.oauth \in LoginStages
    /\ LET r == processLoginResponse(flow, loginData)
       IN flow' = [(IF flow.oauth = "login"
                    THEN [r.f EXCEPT !.refetching = TRUE]
                    ELSE IF ~r.handled /\ ~r.f.isAwaiting2FARef
                    THEN [r.f EXCEPT !.showSecretPhraseModal = TRUE]
                    ELSE r.f)
                     EXCEPT !.oauth = "idle", !.dirty = TRUE]

\* The reload-check effect: check-user-onchain answers (or throws).
ReloadCheckAnswers(answer) ==
    /\ flow.mounted /\ ~flow.dirty /\ flow.reload = "check"
    /\ flow' = [(CASE answer = "exists" -> issueLogin(flow, "reload", "login")
                   [] answer = "new" ->
                        [flow EXCEPT !.showSecretPhraseModal = TRUE, !.reload = "idle"]
                   [] OTHER -> [flow EXCEPT !.reload = "idle"])
                  EXCEPT !.dirty = TRUE]

\* The reload-check effect: its login request answers.
ReloadLoginAnswers(loginData) ==
    /\ flow.mounted /\ ~flow.dirty /\ flow.reload = "login"
    /\ flow' = [processLoginResponse(flow, loginData).f
                   EXCEPT !.reload = "idle", !.dirty = TRUE]

\* What handleTotpSubmit, handleMandatory2FAComplete and
\* handleEmailOtpSuccess do between closing their modal and refetchUser
\* (or the next await): the refs, then the stored flags.
markAuthenticated(f) ==
    updateStoredAuthFlags([f EXCEPT !.isAwaiting2FARef = FALSE,
                                    !.reloadCheckDoneRef = TRUE,
                                    !.oauthFlowProcessedRef = TRUE,
                                    !.sealed = TRUE])

\* refetchUser() invoked by a handler; what the refs and the stored user
\* are at that moment is kept until the next commit.
refetchUserBy(f, handler) ==
    [f EXCEPT !.refetching = TRUE,
              !.lastRefetch = [by |-> handler,
                               reloadCheckDoneRef |-> f.reloadCheckDoneRef,
                               oauthFlowProcessedRef |-> f.oauthFlowProcessedRef,
                               isAwaiting2FARef |-> f.isAwaiting2FARef,
                               storedAuthUser |-> f.storedAuthUser]]

\* handleTotpSubmit(code) up to its POST /api/2fa/validate.
handleTotpSubmit ==
    /\ flow.mounted /\ ~flow.dirty /\ flow.showTotpModal /\ flow.handler = "none"
    /\ flow' = [flow EXCEPT !.handler = "validate", !.dirty = TRUE]

\* handleTotpSubmit after the answer.
TotpValidateAnswers(success) ==
    /\ flow.mounted /\ ~flow.dirty /\ flow.handler = "validate"
    /\ flow' = [(IF success
                 THEN refetchUserBy(markAuthenticated([flow EXCEPT !.showTotpModal = FALSE]),
                                    "handleTotpSubmit")
                 ELSE flow)
                  EXCEPT !.handler = "none", !.dirty = TRUE]

\* handleMandatory2FAComplete()
handleMandatory2FAComplete ==
    /\ flow.mounted /\ ~flow.dirty /\ flow.showMandatory2FASetup
    /\ flow' = [refetchUserBy(markAuthenticated([flow EXCEPT !.showMandatory2FASetup = FALSE]),
                              "handleMandatory2FAComplete")
                   EXCEPT !.dirty = TRUE]

\* handleEmailOtpSuccess() up to its await of storeEmailOTP2FAMarker.
handleEmailOtpSuccess ==
    /\ flow.mounted /\ ~flow.dirty /\ flow.showEmailOtpModal /\ flow.handler = "none"
    /\ LET f == markAuthenticated([flow EXCEPT !.showEmailOtpModal = FALSE])
       IN flow' = [(IF flow.googleUser # <<>> THEN [f EXCEPT !.handler = "marker"]
                    ELSE refetchUserBy(f, "handleEmailOtpSuccess"))
                     EXCEPT !.dirty = TRUE]

\* handleEmailOtpSuccess once the marker is stored.
EmailMarkerStored ==
    /\ flow.mounted /\ ~flow.dirty /\ flow.handler = "marker"
    /\ flow' = [refetchUserBy(flow, "handleEmailOtpSuccess")
                   EXCEPT !.handler = "none", !.dirty = TRUE]

\* handleEmailOtpCancel(): logout and a full page load of "/".
handleEmailOtpCancel ==
    /\ flow.mounted /\ ~flow.dirty /\ flow.showEmailOtpModal /\ flow.handler = "none"
    /\ flow' = [flow EXCEPT !.showEmailOtpModal = FALSE, !.isAwaiting2FARef = FALSE,
                            !.userDismissedAuthRef = TRUE, !.reloadCheckDoneRef = TRUE,
                            !.oauthFlowProcessedRef = TRUE, !.storedAuthUser = <<>>,
                            !.mounted = FALSE, !.left = TRUE]

\* handleSecretPhraseSubmit(phrase) up to its POST /api/zkauth/register.
handleSecretPhraseSubmit ==
    /\ flow.mounted /\ ~flow.dirty /\ flow.showSecretPhraseModal /\ flow.handler = "none"
    /\ flow.googleUser # <<>>
    /\ flow' = [flow EXCEPT !.showSecretPhraseModal = FALSE, !.handler = "register",
                            !.dirty = TRUE]

\* handleSecretPhraseSubmit after the answer: on success the user is stored
\* as registered and the user query refetched.
RegisterAnswers(success) ==
    /\ flow.mounted /\ ~flow.dirty /\ flow.handler = "register"
    /\ flow' = [(IF success
                 THEN [storeAuthUser(flow, FullyAuthenticated)
                          EXCEPT !.refetching = TRUE, !.handler = "registerRefetch"]
                 ELSE [flow EXCEPT !.handler = "none"])
                  EXCEPT !.dirty = TRUE]

\* handleSecretPhraseSubmit after its refetchUser: 2FA setup is required.
RegisterRequires2FA ==
    /\ flow.mounted /\ ~flow.dirty /\ flow.handler = "registerRefetch" /\ ~flow.refetching
    /\ flow' = [flow EXCEPT !.isAwaiting2FARef = TRUE, !.showMandatory2FASetup = TRUE,
                            !.handler = "none", !.dirty = TRUE]

FlowInit == CoreIdle /\ AuxIdle

FlowNext ==
    \/ \E search \in {"oauth=success", ""}, storedAuthUser \in FlowUsers \cup {<<>>} :
          MountFlow(search, storedAuthUser) /\ OnlyFlow
    \/ \E serverUser \in FlowUsers \cup {<<>>} : RefetchResolve(serverUser) /\ OnlyFlow
    \/ SearchFollows /\ OnlyFlow
    \/ LogoutElsewhere /\ OnlyFlow
    \/ Commit /\ OnlyFlow
    \/ \E answer \in {"exists", "new", "throws"} : OAuthCheckAnswers(answer) /\ OnlyFlow
    \/ \E loginData \in LoginAnswers : OAuthLoginAnswers(loginData) /\ OnlyFlow
    \/ \E answer \in {"exists", "new", "throws"} : ReloadCheckAnswers(answer) /\ OnlyFlow
    \/ \E loginData \in LoginAnswers : ReloadLoginAnswers(loginData) /\ OnlyFlow
    \/ handleTotpSubmit /\ OnlyFlow
    \/ \E success \in BOOLEAN : TotpValidateAnswers(success) /\ OnlyFlow
    \/ handleMandatory2FAComplete /\ OnlyFlow
    \/ handleEmailOtpSuccess /\ OnlyFlow
    \/ EmailMarkerStored /\ OnlyFlow
    \/ handleEmailOtpCancel /\ OnlyFlow
    \/ handleSecretPhraseSubmit /\ OnlyFlow
    \/ \E success \in BOOLEAN : RegisterAnswers(success) /\ OnlyFlow
    \/ RegisterRequires2FA /\ OnlyFlow

FlowSpec == FlowInit /\ [][FlowNext]_vars

\* An effect issues a login request in this step.
LoginIssued ==
    \/ flow.oauth \notin LoginStages /\ flow'.oauth \in LoginStages
    \/ flow.reload \notin LoginStages /\ flow'.reload \in LoginStages

\* A handler invokes refetchUser in this step.
HandlerRefetches == flow'.lastRefetch # <<>> /\ flow'.lastRefetch # flow.lastRefetch

\* C37: when handleTotpSubmit succeeds, or handleMandatory2FAComplete or
\* handleEmailOtpSuccess runs, the stored auth flags are updated, both refs
\* are true and isAwaiting2FARef false by the time refetchUser is invoked;
\* and from then until a logout transition resets the refs neither effect
\* issues a login request.
C37_NoLoginAfter2FA ==
    [][/\ HandlerRefetches =>
             /\ flow'.lastRefetch.reloadCheckDoneRef
             /\ flow'.lastRefetch.oauthFlowProcessedRef
             /\ ~flow'.lastRefetch.isAwaiting2FARef
             /\ flow'.lastRefetch.storedAuthUser \in {<<>>, FullyAuthenticated}
       /\ LoginIssued => ~flow.sealed]_vars

\* C38: at most one login request is in flight, and the OAuth-callback
\* effect and the reload-check effect do not both issue a login between two
\* logout transitions.
C38_OneLoginInFlight ==
    /\ Cardinality(loginsInFlight(flow)) <= 1
    /\ flow.issued # {"oauth", "reload"}

====
